---- MODULE Spec2Model ----
(***************************************************************************)
(* Model of the Luigs & Neumann SM10 driver, lnremote/devices.py (class    *)
(* LNSM10): the command frame encoder, the checksum, the group address     *)
(* encoder and the sendCommand exchange over the serial, socket and dummy  *)
(* connections, called from several threads.                               *)
(*                                                                         *)
(* Bytes are naturals 0..255.  A hex string (Python str of hex characters) *)
(* is a sequence of hex digit values 0..15, so "0146" is <<0,1,4,6>>.      *)
(* An optional byte string (None or bytes) is a record [none, bytes].      *)
(***************************************************************************)
EXTENDS Integers, Sequences, FiniteSets, TLC

----------------------------------------------------------------------------
(* Bounds of the model *)

\* longest payload a thread passes to sendCommand in Spec
MaxData == 1
\* the response size requested by calls that expect a response
MaxResp == 3
\* longest payload of the encoder specification SpecFrame
CodecMaxLen == 3
\* longest axis list of the encoder specification SpecGroup
MaxAxes == 3

Threads == {1, 2}

\* command id used by the threads: "0101" (its acknowledgement is 06 01 01)
CmdIds == {<<0, 1, 0, 1>>}
\* payload byte values used by the threads
DataBytes == {255}
\* byte values the device side puts on the line
DevBytes == {6, 1}
\* response sizes: fire-and-forget, or MaxResp bytes
RespSizes == {0, MaxResp}

RECURSIVE SeqsUpTo(_, _)
SeqsUpTo(S, n) ==
    IF n = 0 THEN {<<>>}
    ELSE LET shorter == SeqsUpTo(S, n - 1)
         IN  shorter \cup {Append(s, x) : s \in {q \in shorter : Len(q) = n - 1}, x \in S}

Payloads == SeqsUpTo(DataBytes, MaxData)
\* what one read can return when k bytes are asked for: for the short
\* responses every byte string up to k bytes, for the long ones (the fixed
\* 4 and 26 byte responses of the catalog) nothing or the whole response
Canned(k) == [i \in 1..k |-> 6]
Chunks(k) == IF k <= MaxResp THEN SeqsUpTo(DevBytes, k) ELSE {<<>>, Canned(k)}

----------------------------------------------------------------------------
(* Python values *)

None == [none |-> TRUE, bytes |-> <<>>]
Bytes(b) == [none |-> FALSE, bytes |-> b]

RECURSIVE Xor(_, _)
\* Python's a ^ b on non-negative integers
Xor(a, b) ==
    IF a = 0 THEN b
    ELSE IF b = 0 THEN a
    ELSE 2 * Xor(a \div 2, b \div 2) + ((a + b) % 2)

RECURSIVE HexDigits(_)
\* the digits of "%X" % v, v >= 0
HexDigits(v) == IF v < 16 THEN <<v>> ELSE Append(HexDigits(v \div 16), v % 16)

\* mutant: "%X" % v, no zero padding
FmtX(v) == HexDigits(v)

\* "%0.2X" % v: upper-case hex, at least two digits
Fmt02X(v) == IF v < 16 THEN <<0, v>> ELSE HexDigits(v)

\* binascii.unhexlify raises binascii.Error on an odd number of digits
UnhexlifyOk(s) == Len(s) % 2 = 0
Unhexlify(s) == [i \in 1..(Len(s) \div 2) |-> 16 * s[2 * i - 1] + s[2 * i]]

\* binascii.hexlify
Hexlify(b) == [i \in 1..(2 * Len(b)) |->
                 IF i % 2 = 1 THEN b[(i + 1) \div 2] \div 16 ELSE b[i \div 2] % 16]

\* Python slice s[:k]
Prefix(s, k) == SubSeq(s, 1, IF Len(s) < k THEN Len(s) ELSE k)

----------------------------------------------------------------------------
(* LNSM10 class constants and static methods *)

SYN == <<1, 6>>
ACK == <<0, 6>>

polyn == 4129
crcInit == 65535
MaxReadAttempts == 5

RECURSIVE crcLoopUsesByte(_, _)
\* mutant: each payload byte is XOR-ed into the running value
crcLoopUsesByte(crc, data_bytes) ==
    IF data_bytes = <<>> THEN crc
    ELSE crcLoopUsesByte(Xor(Xor(crc * 256, polyn), Head(data_bytes)) % 65536,
                         Tail(data_bytes))

RECURSIVE crcLoop(_, _)
\* the loop of crc16: one step per payload byte, the byte itself is not used
crcLoop(crc, data_bytes) ==
    IF data_bytes = <<>> THEN crc
    ELSE crcLoop(Xor(crc * 256, polyn) % 65536, Tail(data_bytes))

crc16(data_bytes) ==
    LET crc == crcLoop(crcInit, data_bytes)
    IN  <<(crc \div 256) % 256, crc % 256>>

RECURSIVE HexOfData(_)
HexOfData(data) ==
    IF data = <<>> THEN <<>> ELSE Fmt02X(Head(data)) \o HexOfData(Tail(data))

\* mutant: the checksum bytes appended low byte first
CommandStringLsbFirst(cmd_id, data_n_bytes, data) ==
    LET crc == crc16(data)
    IN  SYN \o cmd_id \o Fmt02X(data_n_bytes) \o HexOfData(data)
            \o Fmt02X(crc[2]) \o Fmt02X(crc[1])

\* the command string compiled by sendCommand
CommandString(cmd_id, data_n_bytes, data) ==
    LET crc == crc16(data)
    IN  SYN \o cmd_id \o Fmt02X(data_n_bytes) \o HexOfData(data)
            \o Fmt02X(crc[1]) \o Fmt02X(crc[2])

\* mutant: only a declared count that is too small is caught
LengthMismatchTooSmallOnly(data_n_bytes, data) == data_n_bytes < Len(data)

LengthMismatch(data_n_bytes, data) == data_n_bytes # Len(data)

\* lines 200-220 of sendCommand: the exception raised before any I/O, or
\* the bytes of the command
Encoded(cmd_id, data_n_bytes, data) ==
    LET command == CommandString(cmd_id, data_n_bytes, data)
    IN  IF LengthMismatch(data_n_bytes, data)
        THEN [exc |-> "IndexError", bytes_command |-> <<>>]
        ELSE IF ~UnhexlifyOk(command)
        THEN [exc |-> "binascii.Error", bytes_command |-> <<>>]
        ELSE [exc |-> "none", bytes_command |-> Unhexlify(command)]

\* checkResponse: does the response start with ACK + cmd_id
ResponseChecksOut(cmd_id, ansBytes) ==
    LET expected_response == Unhexlify(ACK \o cmd_id)
    IN  Prefix(ansBytes, Len(expected_response)) = expected_response

\* Python list index: a negative index counts from the end
PyIndex(i, n) == IF i < 0 THEN i + n ELSE i

RECURSIVE SumSeq(_)
SumSeq(q) == IF q = <<>> THEN 0 ELSE Head(q) + SumSeq(Tail(q))

Reverse(q) == [i \in 1..Len(q) |-> q[Len(q) + 1 - i]]

\* ax_mask[ax - 1] = 1 raises IndexError outside the 72 entries of SBs
GroupAddressOk(axes) ==
    \A k \in 1..Len(axes) : PyIndex(axes[k] - 1, 72) \in 0..71

\* mutant: an axis listed twice is counted twice
calculateGroupAddressCounting(axes) ==
    LET SBs == [i \in 1..72 |-> <<1, 2, 4, 8>>[((i - 1) % 4) + 1]]
        ax_mask == [i \in 1..72 |->
                      Cardinality({k \in 1..Len(axes) :
                                      PyIndex(axes[k] - 1, 72) = i - 1})]
        binary == [i \in 1..72 |-> SBs[i] * ax_mask[i]]
        binsum == [j \in 1..18 |-> SumSeq(SubSeq(binary, 4 * j - 3, 4 * j))]
        adr == [k \in 1..9 |-> binsum[2 * k] + binsum[2 * k - 1]]
    IN  Reverse(adr)

\* mutant: the address bytes are not reversed
calculateGroupAddressUnreversed(axes) ==
    LET SBs == [i \in 1..72 |-> <<1, 2, 4, 8>>[((i - 1) % 4) + 1]]
        ax_mask == [i \in 1..72 |->
                      IF \E k \in 1..Len(axes) : PyIndex(axes[k] - 1, 72) = i - 1
                      THEN 1 ELSE 0]
        binary == [i \in 1..72 |-> SBs[i] * ax_mask[i]]
        binsum == [j \in 1..18 |-> SumSeq(SubSeq(binary, 4 * j - 3, 4 * j))]
    IN  [k \in 1..9 |-> binsum[2 * k] + binsum[2 * k - 1]]

\* calculateGroupAddress; the lists are 0-based in the source, 1-based here
calculateGroupAddress(axes) ==
    LET SBs == [i \in 1..72 |-> <<1, 2, 4, 8>>[((i - 1) % 4) + 1]]
        ax_mask == [i \in 1..72 |->
                      IF \E k \in 1..Len(axes) : PyIndex(axes[k] - 1, 72) = i - 1
                      THEN 1 ELSE 0]
        binary == [i \in 1..72 |-> SBs[i] * ax_mask[i]]
        binsum == [j \in 1..18 |-> SumSeq(SubSeq(binary, 4 * j - 3, 4 * j))]
        adr == [k \in 1..9 |-> binsum[2 * k] + binsum[2 * k - 1]]
    IN  Reverse(adr)

----------------------------------------------------------------------------
\* the callers of the lock-order specification
MaxCallers == 3
Callers == 1..MaxCallers

VARIABLES
    connection,     \* LNSM10.CONNECTION: "serial", "socket" or "dummy"
    io_lock,        \* self.io_lock: 0 when free, else the thread holding it
    pc,             \* where each thread is in sendCommand
    args,           \* the arguments of each thread's current call
    bytes_command,  \* the local bytes_command of each call
    ans,            \* the local ans of each call
    read_attempts,  \* the local read_attempts of each call
    result,         \* how the call ended: "returned" or the exception raised
    retval,         \* the value returned
    ops,            \* transport operations of the current call, in order
    silent,         \* every read of the current call returned zero bytes
    log,            \* what the current call logged
    pin, pout, ppc, \* input, output and stage of the encoder specifications
    unit,           \* self._unit
    selected_axes,  \* self._selected_axes
    op,             \* the catalog operation each thread is executing
    cmd_lock,       \* LuigsAndNeumannSM10.cmd_lock: 0 when free, else its holder
    self_bytes_command, \* LuigsAndNeumannSM10's attribute self.bytes_command
    written,        \* the frame each LuigsAndNeumannSM10 call wrote to the port
    calls,          \* the number of calls made on the buffered serial port
    callno,         \* which of these calls each thread is in, 0 when in none
    inbuf,          \* the port's input buffer: per byte, the call it answers
    pending,        \* frames the device has received and not yet answered
    recvs,          \* s.recv calls each socket call has made so far
    _homed,         \* self._homed
    homed,          \* self.homed: FALSE while the attribute does not exist
    home_log,       \* the homing calls made so far, the last one may be running
    manipulator,    \* the class of AcquisitionWorker.manipulator
    keep_running,   \* AcquisitionWorker.keep_running
    mutex,          \* AcquisitionWorker.mutex is locked
    waiting,        \* the worker is blocked in wait_condition.wait, not woken
    wpc,            \* where the worker thread is in AcquisitionWorker.run
    gpc,            \* where the GUI thread is
    events,         \* data_ready emissions queued for the GUI thread
    worker_data,    \* AcquisitionWorker.data
    shown,          \* the positions in the boxes of the position panel
    qpc,            \* where each of several callers is at the with statement
    lock_owner,     \* the caller holding self.io_lock among them, 0 when free
    blocked,        \* the callers that had to wait for the lock, in order
    wire            \* the callers whose frames were written, in order

vars == <<connection, io_lock, pc, args, bytes_command, ans, read_attempts,
          result, retval, ops, silent, log, pin, pout, ppc,
          unit, selected_axes, op, cmd_lock, self_bytes_command, written,
          calls, callno, inbuf, pending, recvs, _homed, homed, home_log,
          manipulator, keep_running, mutex, waiting, wpc, gpc, events,
          worker_data, shown, qpc, lock_owner, blocked, wire>>

codecVars == <<pin, pout, ppc>>
opVars == <<unit, selected_axes, op>>

sm10Vars == <<cmd_lock, self_bytes_command, written>>

portVars == <<calls, callno, inbuf, pending>>

homeVars == <<_homed, homed, home_log>>
pollVars == <<manipulator, keep_running, mutex, waiting, wpc, gpc, events,
              worker_data, shown>>
queueVars == <<qpc, lock_owner, blocked, wire>>
restVars == <<recvs, homeVars, pollVars, queueVars>>
\* everything sendCommand itself leaves alone
otherVars == <<codecVars, opVars, sm10Vars, portVars, restVars>>
threadVars == <<connection, io_lock, pc, args, bytes_command, ans,
                read_attempts, result, retval, ops, silent, log>>

NoArgs == [cmd_id |-> <<>>, data_n_bytes |-> 0, data |-> <<>>, resp_nbytes |-> 0]

ThreadsIdle ==
    /\ io_lock = 0
    /\ pc = [t \in Threads |-> "idle"]
    /\ args = [t \in Threads |-> NoArgs]
    /\ bytes_command = [t \in Threads |-> <<>>]
    /\ ans = [t \in Threads |-> None]
    /\ read_attempts = [t \in Threads |-> 0]
    /\ result = [t \in Threads |-> "none"]
    /\ retval = [t \in Threads |-> None]
    /\ ops = [t \in Threads |-> <<>>]
    /\ silent = [t \in Threads |-> TRUE]
    /\ log = [t \in Threads |-> {}]

CodecIdle ==
    /\ pin = <<>>
    /\ pout = <<>>
    /\ ppc = "off"

NoneList == <<None, None, None, None>>

NoOp == [name |-> "none", prog |-> <<>>, issued |-> <<>>, sent |-> <<>>,
         outcome |-> "none", value |-> <<>>]

\* no call of LuigsAndNeumannSM10.sendCommand is under way
Sm10Idle ==
    /\ cmd_lock = 0
    /\ self_bytes_command = <<>>
    /\ written = [t \in Threads |-> <<>>]

\* a freshly opened port: nothing received, nothing owed by the device
PortIdle ==
    /\ calls = 0
    /\ callno = [t \in Threads |-> 0]
    /\ inbuf = <<>>
    /\ pending = <<>>

\* no socket call is under way
RecvIdle == recvs = [t \in Threads |-> 0]

\* __init__: self._homed = False
HomeIdle ==
    /\ _homed = FALSE
    /\ homed = FALSE
    /\ home_log = <<>>

\* no Interface has been built: no worker, no GUI
PollIdle ==
    /\ manipulator = "none"
    /\ keep_running = FALSE
    /\ mutex = FALSE
    /\ waiting = FALSE
    /\ wpc = "off"
    /\ gpc = "off"
    /\ events = 0
    /\ worker_data = "unset"
    /\ shown = "unset"

\* the callers of the lock-order specification have not called yet
QueueIdle ==
    /\ qpc = [c \in Callers |-> "idle"]
    /\ lock_owner = 0
    /\ blocked = <<>>
    /\ wire = <<>>

RestIdle ==
    /\ RecvIdle
    /\ HomeIdle
    /\ PollIdle
    /\ QueueIdle

\* __init__: unit 1, axes 1, 2, 3 selected; no operation under way
OpsIdle ==
    /\ unit = 1
    /\ selected_axes = <<1, 2, 3>>
    /\ op = [t \in Threads |-> NoOp]

Init ==
    /\ connection \in {"serial", "socket", "dummy"}
    /\ ThreadsIdle
    /\ CodecIdle
    /\ OpsIdle
    /\ Sm10Idle
    /\ PortIdle
    /\ RestIdle

----------------------------------------------------------------------------
(* sendCommand, one action per step *)

\* a thread calls sendCommand(cmd_id, data_n_bytes, data, resp_nbytes)
Call(t) ==
    /\ pc[t] = "idle"
    /\ \E c \in CmdIds, d \in Payloads, n \in 0..(MaxData + 1), r \in RespSizes :
          args' = [args EXCEPT ![t] = [cmd_id |-> c, data_n_bytes |-> n,
                                       data |-> d, resp_nbytes |-> r]]
    /\ pc' = [pc EXCEPT ![t] = "encode"]
    /\ UNCHANGED <<connection, io_lock, bytes_command, ans, read_attempts,
                   result, retval, ops, silent, log>>
    /\ UNCHANGED otherVars

\* mutant: the lock is not released when the exception leaves the call
RaiseKeepsLock(t, exc, held) ==
    /\ pc' = [pc EXCEPT ![t] = "done"]
    /\ result' = [result EXCEPT ![t] = exc]
    /\ io_lock' = io_lock

\* the call ends by raising exc; a with-block it is in releases the lock
Raise(t, exc, held) ==
    /\ pc' = [pc EXCEPT ![t] = "done"]
    /\ result' = [result EXCEPT ![t] = exc]
    /\ io_lock' = IF held THEN 0 ELSE io_lock

\* crc, length check, command string, unhexlify, and the connection dispatch
Encode(t) ==
    /\ pc[t] = "encode"
    /\ LET a == args[t]
           e == Encoded(a.cmd_id, a.data_n_bytes, a.data)
       IN  IF e.exc # "none"
           THEN /\ Raise(t, e.exc, FALSE)
                /\ log' = [log EXCEPT ![t] =
                             IF e.exc = "IndexError"
                             THEN @ \cup {"length mismatch"} ELSE @]
                /\ UNCHANGED bytes_command
           ELSE /\ bytes_command' = [bytes_command EXCEPT ![t] = e.bytes_command]
                /\ pc' = [pc EXCEPT ![t] =
                            CASE connection = "serial" -> "lock"
                              [] connection = "socket" -> "connect"
                              [] OTHER -> "dummy"]
                /\ UNCHANGED <<result, io_lock, log>>
    /\ UNCHANGED <<connection, args, ans, read_attempts, retval, ops, silent>>
    /\ UNCHANGED otherVars

\* mutant: the write section is entered without waiting for the lock
AcquireNoWait(t) ==
    /\ pc[t] = "lock"
    /\ io_lock' = t
    /\ pc' = [pc EXCEPT ![t] = "write"]
    /\ UNCHANGED <<connection, args, bytes_command, ans, read_attempts,
                   result, retval, ops, silent, log>>
    /\ UNCHANGED otherVars

\* with self.io_lock:
Acquire(t) ==
    /\ pc[t] = "lock"
    /\ io_lock = 0
    /\ io_lock' = t
    /\ pc' = [pc EXCEPT ![t] = "write"]
    /\ UNCHANGED <<connection, args, bytes_command, ans, read_attempts,
                   result, retval, ops, silent, log>>
    /\ UNCHANGED otherVars

\* self.ser.write(bytes_command), in either branch of resp_nbytes == 0
SerWrite(t) ==
    /\ pc[t] = "write"
    /\ ops' = [ops EXCEPT ![t] = Append(@, "w")]
    /\ pc' = [pc EXCEPT ![t] = IF args[t].resp_nbytes = 0 THEN "clear0" ELSE "read1"]
    /\ UNCHANGED <<connection, io_lock, args, bytes_command, ans, read_attempts,
                   result, retval, silent, log>>
    /\ UNCHANGED otherVars

\* self.clearBuffer() without the ser argument of the static method: TypeError
ClearBufferNoArg(t) ==
    /\ pc[t] = "clear0"
    /\ Raise(t, "TypeError", TRUE)
    /\ UNCHANGED <<connection, args, bytes_command, ans, read_attempts,
                   retval, ops, silent, log>>
    /\ UNCHANGED otherVars

\* ans = self.ser.read(size=resp_nbytes); read_attempts = 0
FirstRead(t) ==
    /\ pc[t] = "read1"
    /\ \E chunk \in Chunks(args[t].resp_nbytes) :
          /\ ans' = [ans EXCEPT ![t] = Bytes(chunk)]
          /\ silent' = [silent EXCEPT ![t] = @ /\ chunk = <<>>]
    /\ read_attempts' = [read_attempts EXCEPT ![t] = 0]
    /\ ops' = [ops EXCEPT ![t] = Append(@, "r")]
    /\ pc' = [pc EXCEPT ![t] = "loop"]
    /\ UNCHANGED <<connection, io_lock, args, bytes_command, result, retval, log>>
    /\ UNCHANGED otherVars

\* loop body: ans += self.ser.read(resp_nbytes - len(ans)); read_attempts += 1
LoopRead(t) ==
    /\ pc[t] = "loop"
    /\ Len(ans[t].bytes) < args[t].resp_nbytes
    /\ read_attempts[t] < MaxReadAttempts
    /\ \E chunk \in Chunks(args[t].resp_nbytes - Len(ans[t].bytes)) :
          /\ ans' = [ans EXCEPT ![t] = Bytes(@.bytes \o chunk)]
          /\ silent' = [silent EXCEPT ![t] = @ /\ chunk = <<>>]
    /\ read_attempts' = [read_attempts EXCEPT ![t] = @ + 1]
    /\ ops' = [ops EXCEPT ![t] = Append(@, "r")]
    /\ log' = [log EXCEPT ![t] = @ \cup {"short read"}]
    /\ UNCHANGED <<connection, io_lock, pc, args, bytes_command, result, retval>>
    /\ UNCHANGED otherVars

\* read_attempts >= 5: self.ser.write(bytes_command) again
Retransmit(t) ==
    /\ pc[t] = "loop"
    /\ Len(ans[t].bytes) < args[t].resp_nbytes
    /\ read_attempts[t] >= MaxReadAttempts
    /\ ops' = [ops EXCEPT ![t] = Append(@, "w")]
    /\ pc' = [pc EXCEPT ![t] = "final"]
    /\ UNCHANGED <<connection, io_lock, args, bytes_command, ans, read_attempts,
                   result, retval, silent, log>>
    /\ UNCHANGED otherVars

\* ans = self.ser.read(resp_nbytes); still short: raise SerialException
FinalRead(t) ==
    /\ pc[t] = "final"
    /\ \E chunk \in Chunks(args[t].resp_nbytes) :
          /\ ans' = [ans EXCEPT ![t] = Bytes(chunk)]
          /\ silent' = [silent EXCEPT ![t] = @ /\ chunk = <<>>]
          /\ IF Len(chunk) # args[t].resp_nbytes
             THEN /\ Raise(t, "SerialException", TRUE)
                  /\ log' = [log EXCEPT ![t] = @ \cup {"no response"}]
             ELSE /\ pc' = [pc EXCEPT ![t] = "loop"]
                  /\ UNCHANGED <<result, io_lock, log>>
    /\ ops' = [ops EXCEPT ![t] = Append(@, "r")]
    /\ UNCHANGED <<connection, args, bytes_command, read_attempts, retval>>
    /\ UNCHANGED otherVars

\* the loop is left with a complete response: self.clearBuffer(self.ser)
ClearBuffer(t) ==
    /\ pc[t] = "loop"
    /\ Len(ans[t].bytes) >= args[t].resp_nbytes
    /\ ops' = [ops EXCEPT ![t] = Append(@, "c")]
    /\ pc' = [pc EXCEPT ![t] = "check"]
    /\ UNCHANGED <<connection, io_lock, args, bytes_command, ans, read_attempts,
                   result, retval, silent, log>>
    /\ UNCHANGED otherVars

\* the call returns value: the with-block releases a held lock
ReturnValue(t, value, held) ==
    /\ pc' = [pc EXCEPT ![t] = "done"]
    /\ result' = [result EXCEPT ![t] = "returned"]
    /\ retval' = [retval EXCEPT ![t] = value]
    /\ io_lock' = IF held THEN 0 ELSE io_lock

\* mutant: a prefix mismatch raises, as in the strict validation
CheckResponseStrict(t) ==
    /\ pc[t] = "check"
    /\ IF ans[t].none
       THEN /\ Raise(t, "TypeError", TRUE)
            /\ UNCHANGED <<retval, log>>
       ELSE IF ResponseChecksOut(args[t].cmd_id, ans[t].bytes)
       THEN /\ ReturnValue(t, ans[t], TRUE)
            /\ UNCHANGED log
       ELSE /\ Raise(t, "SerialException", TRUE)
            /\ log' = [log EXCEPT ![t] = @ \cup {"unexpected response"}]
            /\ UNCHANGED retval
    /\ UNCHANGED <<connection, args, bytes_command, ans, read_attempts, ops, silent>>
    /\ UNCHANGED otherVars

\* self.checkResponse(cmd_id, ans), the end of the with-block, return ans
CheckResponse(t) ==
    /\ pc[t] = "check"
    /\ IF ans[t].none
       THEN /\ Raise(t, "TypeError", TRUE)
            /\ UNCHANGED <<retval, log>>
       ELSE /\ ReturnValue(t, ans[t], TRUE)
            /\ log' = [log EXCEPT ![t] =
                         IF ResponseChecksOut(args[t].cmd_id, ans[t].bytes)
                         THEN @ ELSE @ \cup {"unexpected response"}]
    /\ UNCHANGED <<connection, args, bytes_command, ans, read_attempts, ops, silent>>
    /\ UNCHANGED otherVars

\* mutant: a failed connect leaves the call with the socket error
ConnectFailRaises(t) ==
    /\ pc[t] = "connect"
    /\ log' = [log EXCEPT ![t] = @ \cup {"connect failed"}]
    /\ Raise(t, "socket.error", FALSE)
    /\ UNCHANGED <<connection, args, bytes_command, ans,
                   read_attempts, retval, ops, silent>>
    /\ UNCHANGED otherVars

\* s.connect(address) fails: log, sleep 0.25 s, try again
ConnectFail(t) ==
    /\ pc[t] = "connect"
    /\ log' = [log EXCEPT ![t] = @ \cup {"connect failed"}]
    /\ UNCHANGED <<connection, io_lock, pc, args, bytes_command, ans,
                   read_attempts, result, retval, ops, silent>>
    /\ UNCHANGED otherVars

\* s.connect(address) succeeds
ConnectOk(t) ==
    /\ pc[t] = "connect"
    /\ pc' = [pc EXCEPT ![t] = "sendall"]
    /\ UNCHANGED <<connection, io_lock, args, bytes_command, ans,
                   read_attempts, result, retval, ops, silent, log>>
    /\ UNCHANGED otherVars

\* s.sendall(bytes_command); with resp_nbytes == 0 the call returns None
SendAll(t) ==
    /\ pc[t] = "sendall"
    /\ ops' = [ops EXCEPT ![t] = Append(@, "w")]
    /\ IF args[t].resp_nbytes = 0
       THEN ReturnValue(t, None, FALSE)
       ELSE /\ pc' = [pc EXCEPT ![t] = "recv"]
            /\ UNCHANGED <<result, retval, io_lock>>
    /\ UNCHANGED <<connection, args, bytes_command, ans, read_attempts, silent, log>>
    /\ UNCHANGED otherVars

\* s.recv(resp_nbytes) raises: log and call recv again
RecvError(t) ==
    /\ pc[t] = "recv"
    /\ log' = [log EXCEPT ![t] = @ \cup {"recv failed"}]
    /\ UNCHANGED <<connection, io_lock, pc, args, bytes_command, ans,
                   read_attempts, result, retval, ops, silent>>
    /\ UNCHANGED otherVars

\* ans = s.recv(resp_nbytes): whatever has arrived, at most resp_nbytes bytes
Recv(t) ==
    /\ pc[t] = "recv"
    /\ \E chunk \in Chunks(args[t].resp_nbytes) :
          /\ ans' = [ans EXCEPT ![t] = Bytes(chunk)]
          /\ silent' = [silent EXCEPT ![t] = @ /\ chunk = <<>>]
          /\ ReturnValue(t, Bytes(chunk), FALSE)
    /\ ops' = [ops EXCEPT ![t] = Append(@, "r")]
    /\ UNCHANGED <<connection, args, bytes_command, read_attempts, log>>
    /\ UNCHANGED otherVars

\* mutant: the dummy connection answers with a canned response
DummyCanned(t) ==
    /\ pc[t] = "dummy"
    /\ ReturnValue(t, Bytes(Canned(args[t].resp_nbytes)), FALSE)
    /\ UNCHANGED <<connection, args, bytes_command, ans, read_attempts, ops,
                   silent, log>>
    /\ UNCHANGED otherVars

\* the dummy connection: ans = None, nothing is sent
Dummy(t) ==
    /\ pc[t] = "dummy"
    /\ ReturnValue(t, None, FALSE)
    /\ UNCHANGED <<connection, args, bytes_command, ans, read_attempts, ops,
                   silent, log>>
    /\ UNCHANGED otherVars

\* the caller takes the outcome; the locals of the call are gone
Finish(t) ==
    /\ pc[t] = "done"
    /\ pc' = [pc EXCEPT ![t] = "idle"]
    /\ args' = [args EXCEPT ![t] = NoArgs]
    /\ bytes_command' = [bytes_command EXCEPT ![t] = <<>>]
    /\ ans' = [ans EXCEPT ![t] = None]
    /\ read_attempts' = [read_attempts EXCEPT ![t] = 0]
    /\ result' = [result EXCEPT ![t] = "none"]
    /\ retval' = [retval EXCEPT ![t] = None]
    /\ ops' = [ops EXCEPT ![t] = <<>>]
    /\ silent' = [silent EXCEPT ![t] = TRUE]
    /\ log' = [log EXCEPT ![t] = {}]
    /\ UNCHANGED <<connection, io_lock>>
    /\ UNCHANGED otherVars

Next ==
    \E t \in Threads :
        \/ Call(t)
        \/ Encode(t)
        \/ Acquire(t)
        \/ SerWrite(t)
        \/ ClearBufferNoArg(t)
        \/ FirstRead(t)
        \/ LoopRead(t)
        \/ Retransmit(t)
        \/ FinalRead(t)
        \/ ClearBuffer(t)
        \/ CheckResponse(t)
        \/ ConnectFail(t)
        \/ ConnectOk(t)
        \/ SendAll(t)
        \/ RecvError(t)
        \/ Recv(t)
        \/ Dummy(t)
        \/ Finish(t)

Spec == Init /\ [][Next]_vars

----------------------------------------------------------------------------
(* The frame encoder alone: lines 200-220 of sendCommand applied to every  *)
(* command id, declared count and payload of the bounded input sets.       *)

\* "0101", "0146" and the group command "A120"
FrameCmdIds == {<<0, 1, 0, 1>>, <<0, 1, 4, 6>>, <<10, 1, 2, 0>>}
FrameBytes == {0, 1, 16, 255}
FramePayloads == SeqsUpTo(FrameBytes, CodecMaxLen)

InitFrame ==
    /\ connection = "dummy"
    /\ ThreadsIdle
    /\ OpsIdle
    /\ Sm10Idle
    /\ PortIdle
    /\ RestIdle
    /\ pin \in [cmd_id : FrameCmdIds, data_n_bytes : 0..(CodecMaxLen + 1),
                 data : FramePayloads]
    /\ pout = <<>>
    /\ ppc = "in"

EncodeFrame ==
    /\ ppc = "in"
    /\ pout' = Encoded(pin.cmd_id, pin.data_n_bytes, pin.data)
    /\ ppc' = "out"
    /\ UNCHANGED pin
    /\ UNCHANGED threadVars
    /\ UNCHANGED opVars
    /\ UNCHANGED <<sm10Vars, portVars, restVars>>

NextFrame == EncodeFrame

SpecFrame == InitFrame /\ [][NextFrame]_vars

----------------------------------------------------------------------------
(* The group address encoder alone, on the axis lists its callers pass.    *)

\* axes of unit 1 (1..4) and of unit 2 (7..9)
AxisIds == {1, 2, 3, 4, 7, 8, 9}

InitGroup ==
    /\ connection = "dummy"
    /\ ThreadsIdle
    /\ OpsIdle
    /\ Sm10Idle
    /\ PortIdle
    /\ RestIdle
    /\ pin \in SeqsUpTo(AxisIds, MaxAxes)
    /\ pout = <<>>
    /\ ppc = "in"

GroupAddress ==
    /\ ppc = "in"
    /\ GroupAddressOk(pin)
    /\ pout' = calculateGroupAddress(pin)
    /\ ppc' = "out"
    /\ UNCHANGED pin
    /\ UNCHANGED threadVars
    /\ UNCHANGED opVars
    /\ UNCHANGED <<sm10Vars, portVars, restVars>>

NextGroup == GroupAddress

SpecGroup == InitGroup /\ [][NextGroup]_vars

----------------------------------------------------------------------------
(* The command catalog of LNSM10: an operation is a list of steps, run in  *)
(* order by the calling thread.  A check step is an assert (or a use of a  *)
(* local that may be unbound), a send step one call of sendCommand.        *)

CheckStep(ok, exc) ==
    [k |-> "check", ok |-> ok, exc |-> exc, cmd_id |-> <<>>, n |-> 0,
     data |-> <<>>, resp |-> 0, u |-> 0]
SendStep(cmd_id, n, data, resp) ==
    [k |-> "send", ok |-> TRUE, exc |-> "none", cmd_id |-> cmd_id, n |-> n,
     data |-> data, resp |-> resp, u |-> 0]
SetUnitStep(u) ==
    [k |-> "setunit", ok |-> TRUE, exc |-> "none", cmd_id |-> <<>>, n |-> 0,
     data |-> <<>>, resp |-> 0, u |-> u]
DecodeStep(kind) ==
    [k |-> kind, ok |-> TRUE, exc |-> "none", cmd_id |-> <<>>, n |-> 0,
     data |-> <<>>, resp |-> 0, u |-> 0]

\* a float is its IEEE-754 single bit pattern; struct.pack("f", x) gives
\* its four bytes, lowest first (native order of the little-endian hosts)
convertToFloatBytes(bits) ==
    <<bits % 256, (bits \div 256) % 256, (bits \div 65536) % 256,
      (bits \div 16777216) % 256>>

\* adr = [0] * 4; adr[:len(axes)] = axes
PadAxes(axes) == axes \o [i \in 1..(4 - Len(axes)) |-> 0]

setStepResolutionProg(axis, resolution) ==
    <<CheckStep(resolution > 0 /\ resolution < 255, "AssertionError"),
      SendStep(<<0, 1, 4, 6>>, 1, <<axis, resolution>>, 4)>>

\* mutant: the lower end of the step range is one too low
stepAxisProgFrom127(axis, steps, resolution) ==
    <<CheckStep(steps > -128 /\ steps < 127, "AssertionError")>>
    \o setStepResolutionProg(axis, resolution)
    \o <<SendStep(<<0, 1, 4, 7>>, 1, <<axis, steps + 127>>, 4)>>

stepAxisProg(axis, steps, resolution) ==
    <<CheckStep(steps > -127 /\ steps < 127, "AssertionError")>>
    \o setStepResolutionProg(axis, resolution)
    \o <<SendStep(<<0, 1, 4, 7>>, 1, <<axis, steps + 127>>, 4)>>

setStepDistanceProg(axis, increment) ==
    <<SendStep(<<0, 4, 4, 15>>, 5, <<axis>> \o increment, 0)>>

\* mutant: the upper end of the velocity range is one too high
setStepVelocityProgUpTo16(axis, velocity) ==
    <<CheckStep(velocity > 0 /\ velocity < 17, "AssertionError"),
      SendStep(<<0, 1, 5, 8>>, 2, <<axis, velocity>>, 0)>>

setStepVelocityProg(axis, velocity) ==
    <<CheckStep(velocity > 0 /\ velocity < 16, "AssertionError"),
      SendStep(<<0, 1, 5, 8>>, 2, <<axis, velocity>>, 0)>>

\* both increment and velocity are given
singleStepProg(axis, direction, increment, velocity) ==
    <<CheckStep(direction = 1 \/ direction = -1, "AssertionError")>>
    \o setStepDistanceProg(axis, convertToFloatBytes(increment))
    \o setStepVelocityProg(axis, velocity)
    \o <<SendStep(IF direction = 1 THEN <<0, 1, 4, 0>> ELSE <<0, 1, 4, 1>>,
                  1, <<axis>>, 4)>>

setMovementVelocityProg(axis, speed_mode, velocity) ==
    <<CheckStep(velocity > 0 /\ velocity < 16, "AssertionError"),
      CheckStep(speed_mode \in {0, 1}, "UnboundLocalError"),
      SendStep(IF speed_mode = 1 THEN <<0, 1, 3, 4>> ELSE <<0, 1, 3, 5>>,
               2, <<axis, velocity>>, 4)>>

\* velocity is given
moveAxisProg(axis, speed_mode, direction, velocity) ==
    setMovementVelocityProg(axis, speed_mode, velocity)
    \o <<CheckStep(speed_mode \in {0, 1} /\ direction \in {1, -1},
                   "UnboundLocalError"),
         SendStep(CASE speed_mode = 1 /\ direction = 1 -> <<0, 0, 1, 2>>
                    [] speed_mode = 1 /\ direction # 1 -> <<0, 0, 1, 3>>
                    [] speed_mode # 1 /\ direction = 1 -> <<0, 0, 1, 4>>
                    [] OTHER -> <<0, 0, 1, 5>>,
                  1, <<axis>>, 4)>>

storePositionProg(axis, slot_number) ==
    <<CheckStep(slot_number > 0 /\ slot_number <= 5, "AssertionError"),
      SendStep(<<0, 1, 0, 10>>, 2, <<axis, slot_number>>, 4)>>

\* mutant: the unit is stored without the assert
setUnitProgUnchecked(u) == <<SetUnitStep(u)>>

setUnitProg(u) ==
    <<CheckStep(u = 1 \/ u = 2, "AssertionError"), SetUnitStep(u)>>

\* readManipulator(): the axes are self._selected_axes
readManipulatorProg(axes) ==
    <<SendStep(<<10, 1, 0, 1>>, 5, <<160>> \o PadAxes(axes), 26),
      DecodeStep("unpack")>>

readManipulator2Prog(axes) ==
    <<SendStep(<<10, 1, 3, 1>>, 5, <<160>> \o PadAxes(axes), 26),
      DecodeStep("unpack")>>

queryAxesStateProg(axes) ==
    <<SendStep(<<10, 1, 2, 0>>, 5, <<160>> \o PadAxes(axes), 26),
      DecodeStep("index")>>

\* the calls the operating thread makes: in-range and out-of-range values
OpCalls ==
    {[name |-> "stepAxis", prog |-> stepAxisProg(a, 5, 10)] : a \in {1, 2}}
    \cup {[name |-> "singleStep", prog |-> singleStepProg(1, 1, 1065353216, v)]
             : v \in {5, 16}}
    \cup {[name |-> "moveAxis", prog |-> moveAxisProg(1, m, 1, v)]
             : m \in {1, 2}, v \in {5, 0}}
    \cup {[name |-> "storePosition", prog |-> storePositionProg(1, n)]
             : n \in {5, 6}}
    \cup {[name |-> "setUnit", prog |-> setUnitProg(u)] : u \in {1, 2, 3}}
    \cup {[name |-> "readManipulator", prog |-> readManipulatorProg(selected_axes)]}
    \cup {[name |-> "readManipulator2", prog |-> readManipulator2Prog(<<1, 2, 3>>)]}
    \cup {[name |-> "queryAxesState", prog |-> queryAxesStateProg(<<1, 2, 3>>)]}

\* the thread that runs catalog operations; the others call sendCommand
OpThreads == {1}

\* slices ans[8:12] .. ans[20:24] unpacked, or [None] * 4 when unpack raises
\* (ans is None, or a slice is shorter than 4 bytes)
UnpackFloats(a) ==
    IF a.none \/ Len(a.bytes) < 24 THEN NoneList
    ELSE [i \in 1..4 |-> Bytes(SubSeq(a.bytes, 4 * i + 5, 4 * i + 8))]

\* (ans[8], .., ans[11]) .. (ans[20], .., ans[23]), or [None] * 4
IndexStates(a) ==
    IF a.none \/ Len(a.bytes) < 24 THEN NoneList
    ELSE [i \in 1..4 |-> Bytes(SubSeq(a.bytes, 4 * i + 5, 4 * i + 8))]

LocalsGone(t) ==
    /\ args' = [args EXCEPT ![t] = NoArgs]
    /\ bytes_command' = [bytes_command EXCEPT ![t] = <<>>]
    /\ ans' = [ans EXCEPT ![t] = None]
    /\ read_attempts' = [read_attempts EXCEPT ![t] = 0]
    /\ result' = [result EXCEPT ![t] = "none"]
    /\ ops' = [ops EXCEPT ![t] = <<>>]
    /\ silent' = [silent EXCEPT ![t] = TRUE]
    /\ log' = [log EXCEPT ![t] = {}]

\* the thread calls a catalog operation
OpStart(t) ==
    /\ t \in OpThreads
    /\ pc[t] = "idle"
    /\ \E c \in OpCalls :
          op' = [op EXCEPT ![t] = [name |-> c.name, prog |-> c.prog,
                                   issued |-> <<>>, sent |-> <<>>,
                                   outcome |-> "running", value |-> <<>>]]
    /\ pc' = [pc EXCEPT ![t] = "op"]
    /\ UNCHANGED <<connection, io_lock, args, bytes_command, ans, read_attempts,
                   result, retval, ops, silent, log>>
    /\ UNCHANGED <<codecVars, unit, selected_axes>>
    /\ UNCHANGED <<sm10Vars, portVars, restVars>>

\* the next step of the operation, up to and including a call of sendCommand
OpStep(t) ==
    /\ pc[t] = "op"
    /\ LET o == op[t]
           s == Head(o.prog)
       IN  IF o.prog = <<>>
           THEN /\ op' = [op EXCEPT ![t].outcome = "returned"]
                /\ pc' = [pc EXCEPT ![t] = "opdone"]
                /\ UNCHANGED <<args, unit, retval>>
           ELSE CASE s.k = "check" ->
                       /\ IF s.ok
                          THEN /\ op' = [op EXCEPT ![t].prog = Tail(o.prog)]
                               /\ UNCHANGED pc
                          ELSE /\ op' = [op EXCEPT ![t].outcome = s.exc]
                               /\ pc' = [pc EXCEPT ![t] = "opdone"]
                       /\ UNCHANGED <<args, unit, retval>>
                  [] s.k = "send" ->
                       /\ args' = [args EXCEPT ![t] =
                                     [cmd_id |-> s.cmd_id, data_n_bytes |-> s.n,
                                      data |-> s.data, resp_nbytes |-> s.resp]]
                       /\ op' = [op EXCEPT ![t].prog = Tail(o.prog)]
                       /\ pc' = [pc EXCEPT ![t] = "encode"]
                       /\ UNCHANGED <<unit, retval>>
                  [] s.k = "setunit" ->
                       /\ unit' = s.u
                       /\ op' = [op EXCEPT ![t].prog = Tail(o.prog)]
                       /\ UNCHANGED <<args, pc, retval>>
                  [] OTHER ->
                       /\ op' = [op EXCEPT ![t].prog = Tail(o.prog),
                                           ![t].value =
                                               IF s.k = "unpack"
                                               THEN UnpackFloats(retval[t])
                                               ELSE IndexStates(retval[t])]
                       /\ retval' = [retval EXCEPT ![t] = None]
                       /\ UNCHANGED <<args, pc, unit>>
    /\ UNCHANGED <<connection, io_lock, bytes_command, ans, read_attempts,
                   result, ops, silent, log>>
    /\ UNCHANGED <<codecVars, selected_axes>>
    /\ UNCHANGED <<sm10Vars, portVars, restVars>>

\* sendCommand is back: the operation goes on, or the exception leaves it
OpResume(t) ==
    /\ t \in OpThreads
    /\ pc[t] = "done"
    /\ LET o == op[t]
           wrote == \E i \in 1..Len(ops[t]) : ops[t][i] = "w"
           sent == IF wrote THEN Append(o.sent, args[t]) ELSE o.sent
       IN  IF result[t] = "returned"
           THEN /\ op' = [op EXCEPT ![t].issued = Append(o.issued, args[t].cmd_id),
                                    ![t].sent = sent]
                /\ pc' = [pc EXCEPT ![t] = "op"]
           ELSE /\ op' = [op EXCEPT ![t].outcome = result[t], ![t].sent = sent]
                /\ pc' = [pc EXCEPT ![t] = "opdone"]
    /\ LocalsGone(t)
    /\ UNCHANGED <<connection, io_lock, retval>>
    /\ UNCHANGED <<codecVars, unit, selected_axes>>
    /\ UNCHANGED <<sm10Vars, portVars, restVars>>

\* the caller of the operation takes its outcome
OpEnd(t) ==
    /\ pc[t] = "opdone"
    /\ op' = [op EXCEPT ![t] = NoOp]
    /\ retval' = [retval EXCEPT ![t] = None]
    /\ pc' = [pc EXCEPT ![t] = "idle"]
    /\ UNCHANGED <<connection, io_lock, args, bytes_command, ans, read_attempts,
                   result, ops, silent, log>>
    /\ UNCHANGED <<codecVars, unit, selected_axes>>
    /\ UNCHANGED <<sm10Vars, portVars, restVars>>

NextOps ==
    \/ \E t \in OpThreads :
          \/ OpStart(t)
          \/ OpStep(t)
          \/ OpResume(t)
          \/ OpEnd(t)
    \/ \E t \in Threads \ OpThreads :
          \/ Call(t)
          \/ Finish(t)
    \/ \E t \in Threads :
          \/ Encode(t)
          \/ Acquire(t)
          \/ SerWrite(t)
          \/ ClearBufferNoArg(t)
          \/ FirstRead(t)
          \/ LoopRead(t)
          \/ Retransmit(t)
          \/ FinalRead(t)
          \/ ClearBuffer(t)
          \/ CheckResponse(t)
          \/ ConnectFail(t)
          \/ ConnectOk(t)
          \/ SendAll(t)
          \/ RecvError(t)
          \/ Recv(t)
          \/ Dummy(t)

SpecOps == Init /\ [][NextOps]_vars

----------------------------------------------------------------------------
(* Properties *)

Done(t) == pc[t] = "done"

\* the call of t has touched the transport and has not ended yet
Exchanging(t) == pc[t] \notin {"idle", "done"} /\ ops[t] # <<>>

\* where a thread is inside the with-block of the serial branch
InWithBlock == {"write", "clear0", "read1", "loop", "final", "check"}

\* C1: sendCommand ends with IndexError exactly when the declared count
\* differs from the payload length, and then nothing was written; a call
\* that has touched the transport has matching counts (every connection).
C1_IndexErrorIffLengthMismatch ==
    \A t \in Threads :
        /\ Done(t) => (result[t] = "IndexError"
                          <=> args[t].data_n_bytes # Len(args[t].data))
        /\ result[t] = "IndexError" => ops[t] = <<>>
        /\ ops[t] # <<>> => args[t].data_n_bytes = Len(args[t].data)

\* two calls rejected, one with the count one too large, one one too small
C1_Witness ==
    \E t, u \in Threads :
        /\ Done(t) /\ result[t] = "IndexError" /\ ops[t] = <<>>
        /\ args[t].data_n_bytes = Len(args[t].data) + 1
        /\ Done(u) /\ result[u] = "IndexError" /\ ops[u] = <<>>
        /\ args[u].data_n_bytes = Len(args[u].data) - 1

\* C2: with a silent serial line the call fails with SerialException after
\* exactly: write, 5 reads, one retransmission, one final read.
C2_FiveReadsRetransmitFinalRead ==
    \A t \in Threads :
        (connection = "serial" /\ Done(t) /\ result[t] = "SerialException"
            /\ silent[t])
        => ops[t] = <<"w", "r", "r", "r", "r", "r", "w", "r">>

\* C3: in serial mode, while a call is between its first write and its end,
\* no other thread is inside the write/read/clear/check section.
C3_NoInterleaving ==
    connection = "serial" =>
        \A t, u \in Threads :
            (t # u /\ Exchanging(t)) => pc[u] \notin InWithBlock

\* one call has written and read, another caller is blocked on the lock
C3_Witness ==
    /\ connection = "serial"
    /\ \E t, u \in Threads :
          /\ t # u
          /\ Exchanging(t) /\ Len(ops[t]) >= 2
          /\ pc[u] = "lock"

\* C4: in serial mode a well-formed call with resp_nbytes = 0 writes once,
\* reads nothing, clears the buffers, frees the lock and returns None.
C4_FireAndForgetReturnsNone ==
    \A t \in Threads :
        (connection = "serial" /\ Done(t) /\ args[t].resp_nbytes = 0
            /\ args[t].data_n_bytes = Len(args[t].data))
        => /\ result[t] = "returned"
           /\ retval[t] = None
           /\ ops[t] = <<"w", "c">>
           /\ io_lock # t

RECURSIVE RefCrcBits(_, _)
\* k conditional shift-and-XOR steps of the 16-bit running value
RefCrcBits(crc, k) ==
    IF k = 0 THEN crc
    ELSE RefCrcBits(IF crc >= 32768 THEN Xor((2 * crc) % 65536, 4129)
                    ELSE (2 * crc) % 65536, k - 1)

RECURSIVE RefCrc(_, _)
\* CRC-16 with polynomial 0x1021: each byte is XOR-ed into the high byte
RefCrc(crc, data) ==
    IF data = <<>> THEN <<crc \div 256, crc % 256>>
    ELSE RefCrc(RefCrcBits(Xor(crc, 256 * Head(data)), 8), Tail(data))

\* C5: the two checksum bytes of every frame are the CRC-16 (polynomial
\* 0x1021, bytes XOR-ed in, initial value 0 or 0xFFFF) of the payload.
C5_ChecksumIsCrc16 ==
    (ppc = "out" /\ pout.exc = "none") =>
        LET frame == pout.bytes_command
            sent == <<frame[Len(frame) - 1], frame[Len(frame)]>>
        IN  sent \in {RefCrc(0, pin.data), RefCrc(65535, pin.data)}

\* C6: a command with declared count n = len(payload) is n + 6 bytes:
\* 0x16, the two command id bytes, n, the payload, checksum MSB, LSB.
C6_FrameLayout ==
    (ppc = "out" /\ pin.data_n_bytes = Len(pin.data)) =>
        LET frame == pout.bytes_command
            n == pin.data_n_bytes
            crc == crc16(pin.data)
        IN  /\ pout.exc = "none"
            /\ Len(frame) = n + 6
            /\ frame = <<22, 16 * pin.cmd_id[1] + pin.cmd_id[2],
                         16 * pin.cmd_id[3] + pin.cmd_id[4], n>>
                       \o pin.data \o <<crc[1], crc[2]>>

\* the group command id with a payload of the greatest length was encoded
C6_Witness ==
    /\ ppc = "out"
    /\ pout.exc = "none"
    /\ pin.cmd_id = <<10, 1, 2, 0>>
    /\ Len(pin.data) = CodecMaxLen
    /\ Len(pout.bytes_command) = CodecMaxLen + 6

\* reading a frame back: command id from bytes 1-2, length from byte 3;
\* a frame too short for its length byte decodes to nothing
DecodeFrame(frame) ==
    IF Len(frame) >= 4 /\ 4 + frame[4] <= Len(frame)
    THEN [cmd_id |-> Hexlify(SubSeq(frame, 2, 3)),
          data |-> SubSeq(frame, 5, 4 + frame[4])]
    ELSE [cmd_id |-> <<>>, data |-> <<>>]

\* C7: decoding the frame of a valid (command id, payload) gives them back,
\* and no other valid pair is encoded to the same frame.
C7_FrameRoundTrip ==
    (ppc = "out" /\ pout.exc = "none") =>
        /\ DecodeFrame(pout.bytes_command)
               = [cmd_id |-> pin.cmd_id, data |-> pin.data]
        /\ \A c \in FrameCmdIds, d \in FramePayloads :
               Encoded(c, Len(d), d).bytes_command = pout.bytes_command
               => (c = pin.cmd_id /\ d = pin.data)

\* a frame whose payload has a byte below 0x10 and one above was decoded
C7_Witness ==
    /\ ppc = "out"
    /\ pout.exc = "none"
    /\ pin.data = <<1, 255>>
    /\ DecodeFrame(pout.bytes_command).data = <<1, 255>>

XYZ == <<0, 0, 0, 0, 0, 0, 0, 0, 7>>
YZ == <<0, 0, 0, 0, 0, 0, 0, 0, 6>>
XZ == <<0, 0, 0, 0, 0, 0, 0, 0, 5>>
XY == <<0, 0, 0, 0, 0, 0, 0, 0, 3>>

\* C8: calculateGroupAddress gives XYZ for [1,2,3], XY for [1,2], YZ for
\* [2,3] and XZ for [1,3].
C8_CanonicalGroupAddresses ==
    ppc = "out" =>
        /\ pin = <<1, 2, 3>> => pout = XYZ
        /\ pin = <<1, 2>> => pout = XY
        /\ pin = <<2, 3>> => pout = YZ
        /\ pin = <<1, 3>> => pout = XZ

C8_Witness ==
    /\ ppc = "out"
    /\ pin = <<1, 3>>
    /\ pout = XZ

ArgumentErrors == {"AssertionError", "UnboundLocalError"}

\* C11: an operation that fails with an argument error has written nothing
\* to the transport, no prerequisite sub-command included
C11_ArgumentErrorsPrecedeIO ==
    \A t \in OpThreads :
        op[t].outcome \in ArgumentErrors => op[t].sent = <<>>

\* C12: stepAxis in dummy mode, once over, has returned without error
\* after issuing setStepResolution (0146) and then the step command (0147)
C12_StepAxisIssuesTwoSubCommands ==
    \A t \in OpThreads :
        (connection = "dummy" /\ op[t].name = "stepAxis" /\ pc[t] = "opdone")
            => /\ op[t].outcome = "returned"
               /\ op[t].issued = <<(<<0, 1, 4, 6>>), (<<0, 1, 4, 7>>)>>

----------------------------------------------------------------------------
(* Construction of LNSM10: LNSM10.__init__ with the serial ports that      *)
(* serial.tools.list_ports.comports() enumerates.  A port is its serial    *)
(* number; its device name is its position in the enumeration.             *)

MaxPorts == 3
SerialNumbers == {"SN1", "SN2"}
PortSerials == SerialNumbers \cup {"None"}
NoPort == 0

\* the position of the first port with the serial number, or NoPort
FirstMatch(comports, serial_number) ==
    IF \E i \in 1..Len(comports) : comports[i] = serial_number
    THEN CHOOSE i \in 1..Len(comports) :
            /\ comports[i] = serial_number
            /\ \A j \in 1..(i - 1) : comports[j] # serial_number
    ELSE NoPort

\* the IOError raised inside the try is caught by its own except clause,
\* which logs it; the function then falls off its end and returns None
findManipulator(comports, serial_number) ==
    LET correct_device == FirstMatch(comports, serial_number)
    IN  [exc |-> "none",
         port |-> correct_device,
         logged |-> correct_device = NoPort]

Unbuilt == [exc |-> "none", port |-> NoPort, logged |-> FALSE,
            ser |-> "unset"]

InitInit ==
    /\ connection \in {"serial", "socket", "dummy"}
    /\ ThreadsIdle
    /\ OpsIdle
    /\ Sm10Idle
    /\ PortIdle
    /\ RestIdle
    /\ pin \in [comports : SeqsUpTo(PortSerials, MaxPorts),
                 serial_number : SerialNumbers]
    /\ pout = Unbuilt
    /\ ppc = "init"

\* self.port = self.findManipulator(LNSM10.SERIAL)
FindManipulator ==
    /\ ppc = "init"
    /\ connection = "serial"
    /\ LET r == findManipulator(pin.comports, pin.serial_number)
       IN  /\ pout' = [pout EXCEPT !.exc = r.exc, !.port = r.port,
                                   !.logged = r.logged]
           /\ ppc' = IF r.exc = "none" THEN "found" ELSE "failed"
    /\ UNCHANGED pin
    /\ UNCHANGED threadVars
    /\ UNCHANGED opVars
    /\ UNCHANGED <<sm10Vars, portVars, restVars>>

\* self.ser = serial.Serial(port, ...): opened when a port is given, left
\* closed when the port is None
EstablishSerialConnection ==
    /\ ppc = "found"
    /\ pout' = [pout EXCEPT !.ser = IF pout.port = NoPort THEN "closed"
                                   ELSE "open"]
    /\ ppc' = "built"
    /\ UNCHANGED pin
    /\ UNCHANGED threadVars
    /\ UNCHANGED opVars
    /\ UNCHANGED <<sm10Vars, portVars, restVars>>

\* socket and dummy mode: nothing is opened by the constructor
ConstructWithoutSerial ==
    /\ ppc = "init"
    /\ connection # "serial"
    /\ ppc' = "built"
    /\ UNCHANGED <<pin, pout>>
    /\ UNCHANGED threadVars
    /\ UNCHANGED opVars
    /\ UNCHANGED <<sm10Vars, portVars, restVars>>

NextInit ==
    \/ FindManipulator
    \/ EstablishSerialConnection
    \/ ConstructWithoutSerial

SpecInit == InitInit /\ [][NextInit]_vars

\* C13: when no enumerated port has the configured serial number,
\* findManipulator has raised IOError to the constructor and no serial
\* connection is established
C13_NotFoundIsSurfaced ==
    (/\ connection = "serial"
     /\ ppc # "init"
     /\ FirstMatch(pin.comports, pin.serial_number) = NoPort)
        => /\ pout.exc = "IOError"
           /\ pout.ser = "unset"

----------------------------------------------------------------------------
(* Catalog operations, continued *)

\* the axes of the two units, as the control panel pairs them
UnitAxes(u) == IF u = 1 THEN <<1, 2, 3>> ELSE <<7, 8, 9>>

\* C14: the frame readManipulator hands to sendCommand addresses the axes
\* of the unit selected by the last setUnit
C14_UnitSelectsAxes ==
    \A t \in OpThreads :
        (op[t].name = "readManipulator" /\ pc[t] = "encode")
            => args[t].data = <<160>> \o PadAxes(UnitAxes(unit))

----------------------------------------------------------------------------
(* sendCommand on the socket transport alone, with connects that           *)
(* eventually succeed and a peer that eventually lets recv return.         *)

InitSocket ==
    /\ connection = "socket"
    /\ ThreadsIdle
    /\ CodecIdle
    /\ OpsIdle
    /\ Sm10Idle
    /\ PortIdle
    /\ RestIdle

NextSocket ==
    \E t \in Threads :
        \/ Call(t)
        \/ Encode(t)
        \/ ConnectFail(t)
        \/ ConnectOk(t)
        \/ SendAll(t)
        \/ RecvError(t)
        \/ Recv(t)
        \/ Finish(t)

FairSocket ==
    \A t \in Threads :
        /\ WF_vars(ConnectOk(t))
        /\ WF_vars(SendAll(t))
        /\ WF_vars(Recv(t))

SpecSocket == InitSocket /\ [][NextSocket]_vars /\ FairSocket

\* the number of writes among the transport operations of a call
Writes(o) == Cardinality({i \in 1..Len(o) : o[i] = "w"})

\* a failed connect does not end the call, and nothing is written before
\* a connect has succeeded, nor more than once
ConnectRetrySafe(t) ==
    /\ "connect failed" \in log[t] => result[t] \in {"none", "returned"}
    /\ pc[t] \in {"connect", "sendall"} => ops[t] = <<>>
    /\ Writes(ops[t]) <= 1

----------------------------------------------------------------------------
(* Catalog operations on the dummy transport *)

PositionQueries == {"readManipulator", "readManipulator2", "queryAxesState"}

InitDummy ==
    /\ connection = "dummy"
    /\ ThreadsIdle
    /\ CodecIdle
    /\ OpsIdle
    /\ Sm10Idle
    /\ PortIdle
    /\ RestIdle

NextDummy ==
    \/ \E t \in OpThreads :
          \/ OpStart(t)
          \/ OpStep(t)
          \/ OpResume(t)
          \/ OpEnd(t)
    \/ \E t \in Threads \ OpThreads :
          \/ Call(t)
          \/ Finish(t)
    \/ \E t \in Threads :
          \/ Encode(t)
          \/ Dummy(t)

SpecDummy == InitDummy /\ [][NextDummy]_vars

\* C16: in dummy mode a call of sendCommand touches no transport, a
\* well-formed command returns None whatever resp_nbytes is, and the
\* position queries return [None, None, None, None] without raising
C16_DummyTransport ==
    connection = "dummy" =>
        \A t \in Threads :
            /\ ops[t] = <<>>
            /\ (pc[t] = "done"
                /\ Encoded(args[t].cmd_id, args[t].data_n_bytes,
                           args[t].data).exc = "none")
                   => (result[t] = "returned" /\ retval[t] = None)
            /\ (op[t].name \in PositionQueries /\ pc[t] = "opdone")
                   => (op[t].outcome = "returned" /\ op[t].value = NoneList)

\* a position query has returned in dummy mode
C16_Witness ==
    /\ connection = "dummy"
    /\ \E t \in OpThreads :
          /\ op[t].name = "readManipulator"
          /\ pc[t] = "opdone"
          /\ op[t].value = NoneList
    /\ \E t \in Threads \ OpThreads :
          /\ pc[t] = "done"
          /\ args[t].resp_nbytes > 0
          /\ result[t] = "returned"

----------------------------------------------------------------------------
(* Composite operations and the exclusive section *)

Composites == {"stepAxis", "singleStep", "moveAxis"}

\* t is between the sub-commands of a composite operation: one has been
\* written and completed, and another is still to be sent
MidComposite(t) ==
    /\ op[t].name \in Composites
    /\ op[t].outcome = "running"
    /\ op[t].sent # <<>>
    /\ pc[t] = "op"
    /\ \E i \in 1..Len(op[t].prog) : op[t].prog[i].k = "send"
    /\ \A i \in 1..Len(op[t].prog) : op[t].prog[i].ok

\* C17: on the serial transport, while a thread is between the
\* sub-commands of a composite operation, no other thread is in an
\* exchange of its own (has written its frame to the port)
C17_CompositeAtomicity ==
    connection = "serial" =>
        \A t \in OpThreads : \A u \in Threads \ {t} :
            MidComposite(t) => ~Exchanging(u)

----------------------------------------------------------------------------
(* Response length *)

\* C19: a response that sendCommand returns for resp_nbytes > 0 has
\* exactly resp_nbytes bytes, on the serial and on the socket transport,
\* and the serial accumulation never holds more than resp_nbytes bytes
C19_ExactResponseLength ==
    \A t \in Threads :
        /\ (Done(t) /\ result[t] = "returned" /\ ~retval[t].none
            /\ args[t].resp_nbytes > 0)
               => Len(retval[t].bytes) = args[t].resp_nbytes
        /\ pc[t] \in {"loop", "final", "check"}
               => Len(ans[t].bytes) <= args[t].resp_nbytes

----------------------------------------------------------------------------
(* LuigsAndNeumannSM10.sendCommand (manipulator.py), one action per step.  *)
(* The encoded frame is kept in the attribute self.bytes_command, which    *)
(* all callers share; the locals of a call are per thread.                 *)

crc_polynomial == 4129

\* a Python int is not limited in size: the running value is kept as the
\* list of its bits, lowest first
RECURSIVE Bits(_)
Bits(v) == IF v = 0 THEN <<>> ELSE <<v % 2>> \o Bits(v \div 2)

\* bit k of a value, k = 0 for the lowest
BitAt(b, k) == IF k + 1 <= Len(b) THEN b[k + 1] ELSE 0

RECURSIVE BitsXor(_, _)
\* a ^ b
BitsXor(a, b) ==
    IF a = <<>> THEN b
    ELSE IF b = <<>> THEN a
    ELSE <<(Head(a) + Head(b)) % 2>> \o BitsXor(Tail(a), Tail(b))

\* a << k
ShiftLeft(a, k) == [i \in 1..k |-> 0] \o a

\* a >> k
ShiftRight(a, k) == IF Len(a) <= k THEN <<>> ELSE SubSeq(a, k + 1, Len(a))

RECURSIVE LowBits(_, _)
\* the number made of the k lowest bits of a value
LowBits(a, k) ==
    IF k = 0 THEN 0 ELSE BitAt(a, 0) + 2 * LowBits(ShiftRight(a, 1), k - 1)

\* ctypes.c_ubyte(a).value
c_ubyte(a) == LowBits(a, 8)

\* the eight shifts of one byte: crc & 0x8000 tests bit 15, and nothing
\* cuts the value to 16 bits
RECURSIVE crcShift(_, _)
crcShift(crc, i) ==
    IF i = 0 THEN crc
    ELSE crcShift(IF BitAt(crc, 15) = 1
                  THEN BitsXor(ShiftLeft(crc, 1), Bits(crc_polynomial))
                  ELSE ShiftLeft(crc, 1),
                  i - 1)

RECURSIVE crcFold(_, _)
\* crc = crc ^ data_bytes[n] << 8, then the shifts, for every byte
crcFold(crc, data_bytes) ==
    IF data_bytes = <<>> THEN crc
    ELSE crcFold(crcShift(BitsXor(crc, ShiftLeft(Bits(Head(data_bytes)), 8)),
                          8),
                 Tail(data_bytes))

\* mutant: the high byte keeps one bit above the sixteen
calculateCRCNineBits(data_bytes) ==
    LET crc == crcFold(Bits(0), data_bytes)
    IN  <<LowBits(ShiftRight(crc, 8), 9), c_ubyte(crc)>>

\* (crcMSB, crcLSB) of calculateCRC(data, len(data))
calculateCRC(data_bytes) ==
    LET crc == crcFold(Bits(0), data_bytes)
    IN  <<c_ubyte(ShiftRight(crc, 8)), c_ubyte(crc)>>

\* the bytes of SYN + cmd_id + count + data + CRC
Sm10Frame(cmd_id, data_n_bytes, data) ==
    LET crc == calculateCRC(data)
    IN  Unhexlify(SYN \o cmd_id \o Fmt02X(data_n_bytes) \o HexOfData(data)
                      \o Fmt02X(crc[1]) \o Fmt02X(crc[2]))

\* "0101" and "0146"
Sm10CmdIds == {<<0, 1, 0, 1>>, <<0, 1, 4, 6>>}

\* the device's answer to a frame: ACK, the frame's command id, zeros
Sm10Reply(frame, n) ==
    [i \in 1..n |-> CASE i = 1 -> 6
                      [] i \in {2, 3} -> frame[i]
                      [] OTHER -> 0]

\* what a read of at most k bytes returns when rest is still to arrive
ReadsOf(rest, k) == {Prefix(rest, j) : j \in 0..k}

\* what of the answer to its frame the call of t has not read yet
Sm10Rest(t) ==
    LET reply == Sm10Reply(written[t], args[t].resp_nbytes)
    IN  SubSeq(reply, Len(ans[t].bytes) + 1, Len(reply))

\* a thread calls sendCommand(cmd_id, data_n_bytes, data, resp_nbytes)
Sm10Call(t) ==
    /\ pc[t] = "idle"
    /\ \E c \in Sm10CmdIds, d \in Payloads, n \in 0..(MaxData + 1), r \in RespSizes :
          args' = [args EXCEPT ![t] = [cmd_id |-> c, data_n_bytes |-> n,
                                       data |-> d, resp_nbytes |-> r]]
    /\ pc' = [pc EXCEPT ![t] = "sm10_encode"]
    /\ UNCHANGED <<connection, io_lock, bytes_command, ans, read_attempts,
                   result, retval, ops, silent, log>>
    /\ UNCHANGED <<codecVars, opVars, restVars, sm10Vars, portVars>>

\* CRC, length check, command string; self.bytes_command = unhexlify(command)
Sm10Encode(t) ==
    /\ pc[t] = "sm10_encode"
    /\ LET a == args[t]
       IN  IF a.data_n_bytes # Len(a.data)
           THEN /\ pc' = [pc EXCEPT ![t] = "done"]
                /\ result' = [result EXCEPT ![t] = "IndexError"]
                /\ UNCHANGED self_bytes_command
           ELSE /\ self_bytes_command' = Sm10Frame(a.cmd_id, a.data_n_bytes, a.data)
                /\ pc' = [pc EXCEPT ![t] = "sm10_lock"]
                /\ UNCHANGED result
    /\ UNCHANGED <<connection, io_lock, args, bytes_command, ans, read_attempts,
                   retval, ops, silent, log>>
    /\ UNCHANGED <<codecVars, opVars, restVars, portVars, cmd_lock, written>>

\* with self.cmd_lock:
Sm10Acquire(t) ==
    /\ pc[t] = "sm10_lock"
    /\ cmd_lock = 0
    /\ cmd_lock' = t
    /\ pc' = [pc EXCEPT ![t] = "sm10_write"]
    /\ UNCHANGED <<connection, io_lock, args, bytes_command, ans, read_attempts,
                   result, retval, ops, silent, log>>
    /\ UNCHANGED <<codecVars, opVars, restVars, portVars, self_bytes_command, written>>

\* self.manipulator.write(self.bytes_command); resp_nbytes == 0: return None
Sm10Write(t) ==
    /\ pc[t] = "sm10_write"
    /\ written' = [written EXCEPT ![t] = self_bytes_command]
    /\ ops' = [ops EXCEPT ![t] = Append(@, "w")]
    /\ IF args[t].resp_nbytes = 0
       THEN /\ pc' = [pc EXCEPT ![t] = "done"]
            /\ result' = [result EXCEPT ![t] = "returned"]
            /\ cmd_lock' = 0
       ELSE /\ pc' = [pc EXCEPT ![t] = "sm10_read1"]
            /\ UNCHANGED <<result, cmd_lock>>
    /\ UNCHANGED <<connection, io_lock, args, bytes_command, ans, read_attempts,
                   retval, silent, log>>
    /\ UNCHANGED <<codecVars, opVars, restVars, portVars, self_bytes_command>>

\* ans = self.manipulator.read(resp_nbytes); read_attempts = 0
Sm10FirstRead(t) ==
    /\ pc[t] = "sm10_read1"
    /\ \E chunk \in ReadsOf(Sm10Rest(t), args[t].resp_nbytes) :
          ans' = [ans EXCEPT ![t] = Bytes(chunk)]
    /\ read_attempts' = [read_attempts EXCEPT ![t] = 0]
    /\ ops' = [ops EXCEPT ![t] = Append(@, "r")]
    /\ pc' = [pc EXCEPT ![t] = "sm10_loop"]
    /\ UNCHANGED <<connection, io_lock, args, bytes_command, result, retval,
                   silent, log>>
    /\ UNCHANGED <<codecVars, opVars, restVars, sm10Vars, portVars>>

\* ans += self.manipulator.read(resp_nbytes - len(ans)); read_attempts += 1
Sm10LoopRead(t) ==
    /\ pc[t] = "sm10_loop"
    /\ Len(ans[t].bytes) < args[t].resp_nbytes
    /\ read_attempts[t] < MaxReadAttempts
    /\ \E chunk \in ReadsOf(Sm10Rest(t), args[t].resp_nbytes - Len(ans[t].bytes)) :
          ans' = [ans EXCEPT ![t] = Bytes(@.bytes \o chunk)]
    /\ read_attempts' = [read_attempts EXCEPT ![t] = @ + 1]
    /\ ops' = [ops EXCEPT ![t] = Append(@, "r")]
    /\ UNCHANGED <<connection, io_lock, pc, args, bytes_command, result, retval,
                   silent, log>>
    /\ UNCHANGED <<codecVars, opVars, restVars, sm10Vars, portVars>>

\* read_attempts >= 5: ans = self.manipulator.read(resp_nbytes), without a
\* retransmission; still short: raise SerialException, else break
Sm10FinalRead(t) ==
    /\ pc[t] = "sm10_loop"
    /\ Len(ans[t].bytes) < args[t].resp_nbytes
    /\ read_attempts[t] >= MaxReadAttempts
    /\ \E chunk \in ReadsOf(Sm10Rest(t), args[t].resp_nbytes) :
          /\ ans' = [ans EXCEPT ![t] = Bytes(chunk)]
          /\ IF Len(chunk) # args[t].resp_nbytes
             THEN /\ pc' = [pc EXCEPT ![t] = "done"]
                  /\ result' = [result EXCEPT ![t] = "SerialException"]
             ELSE /\ pc' = [pc EXCEPT ![t] = "sm10_check"]
                  /\ UNCHANGED result
    /\ cmd_lock' = 0
    /\ ops' = [ops EXCEPT ![t] = Append(@, "r")]
    /\ UNCHANGED <<connection, io_lock, args, bytes_command, read_attempts,
                   retval, silent, log>>
    /\ UNCHANGED <<codecVars, opVars, restVars, portVars, self_bytes_command, written>>

\* the loop is left with a complete response, and with it the with-block
Sm10LoopExit(t) ==
    /\ pc[t] = "sm10_loop"
    /\ Len(ans[t].bytes) >= args[t].resp_nbytes
    /\ cmd_lock' = 0
    /\ pc' = [pc EXCEPT ![t] = "sm10_check"]
    /\ UNCHANGED <<connection, io_lock, args, bytes_command, ans, read_attempts,
                   result, retval, ops, silent, log>>
    /\ UNCHANGED <<codecVars, opVars, restVars, portVars, self_bytes_command, written>>

\* outside the lock: a response that does not start with 06 + cmd_id
\* raises SerialException, any other is returned
Sm10Check(t) ==
    /\ pc[t] = "sm10_check"
    /\ IF ResponseChecksOut(args[t].cmd_id, ans[t].bytes)
       THEN /\ result' = [result EXCEPT ![t] = "returned"]
            /\ retval' = [retval EXCEPT ![t] = ans[t]]
       ELSE /\ result' = [result EXCEPT ![t] = "SerialException"]
            /\ UNCHANGED retval
    /\ pc' = [pc EXCEPT ![t] = "done"]
    /\ UNCHANGED <<connection, io_lock, args, bytes_command, ans, read_attempts,
                   ops, silent, log>>
    /\ UNCHANGED <<codecVars, opVars, restVars, sm10Vars, portVars>>

\* the caller takes the outcome; the locals of the call are gone
Sm10Finish(t) ==
    /\ pc[t] = "done"
    /\ pc' = [pc EXCEPT ![t] = "idle"]
    /\ LocalsGone(t)
    /\ retval' = [retval EXCEPT ![t] = None]
    /\ written' = [written EXCEPT ![t] = <<>>]
    /\ UNCHANGED <<connection, io_lock>>
    /\ UNCHANGED <<codecVars, opVars, restVars, portVars, cmd_lock, self_bytes_command>>

InitSm10 ==
    /\ connection = "serial"
    /\ ThreadsIdle
    /\ CodecIdle
    /\ OpsIdle
    /\ Sm10Idle
    /\ PortIdle
    /\ RestIdle

NextSm10 ==
    \E t \in Threads :
        \/ Sm10Call(t)
        \/ Sm10Encode(t)
        \/ Sm10Acquire(t)
        \/ Sm10Write(t)
        \/ Sm10FirstRead(t)
        \/ Sm10LoopRead(t)
        \/ Sm10FinalRead(t)
        \/ Sm10LoopExit(t)
        \/ Sm10Check(t)
        \/ Sm10Finish(t)

SpecSm10 == InitSm10 /\ [][NextSm10]_vars

\* C18: the frame a caller of LuigsAndNeumannSM10.sendCommand has written
\* under cmd_lock is the frame of its own command id and payload, so that
\* the prefix it checks belongs to the command it transmitted
C18_WritesOwnFrame ==
    \A t \in Threads :
        written[t] # <<>>
            => written[t] = Sm10Frame(args[t].cmd_id, args[t].data_n_bytes,
                                      args[t].data)

----------------------------------------------------------------------------
(* The serial branch of LNSM10.sendCommand with the port's input buffer:   *)
(* the device answers each frame it receives with resp_nbytes bytes, at    *)
(* any later time; a byte in the buffer is the number of the call whose    *)
(* frame it answers.                                                       *)

MaxCalls == 2

\* ser.read(k) takes what has arrived, at most k bytes
Available(k) == IF Len(inbuf) < k THEN Len(inbuf) ELSE k
Taken(k) == SubSeq(inbuf, 1, Available(k))
Left(k) == SubSeq(inbuf, Available(k) + 1, Len(inbuf))

\* the frame of t's call reaches the device, which owes it an answer
Received(t) ==
    IF args[t].resp_nbytes = 0 THEN pending
    ELSE Append(pending, [call |-> callno[t], n |-> args[t].resp_nbytes])

PortCall(t) ==
    /\ pc[t] = "idle"
    /\ calls < MaxCalls
    /\ calls' = calls + 1
    /\ callno' = [callno EXCEPT ![t] = calls + 1]
    /\ \E c \in CmdIds, n \in 0..1, r \in RespSizes :
          args' = [args EXCEPT ![t] = [cmd_id |-> c, data_n_bytes |-> n,
                                       data |-> <<>>, resp_nbytes |-> r]]
    /\ pc' = [pc EXCEPT ![t] = "port_encode"]
    /\ UNCHANGED <<connection, io_lock, bytes_command, ans, read_attempts,
                   result, retval, ops, silent, log>>
    /\ UNCHANGED <<codecVars, opVars, restVars, sm10Vars, inbuf, pending>>

\* lines 200-220: the length check and the encoding
PortEncode(t) ==
    /\ pc[t] = "port_encode"
    /\ LET e == Encoded(args[t].cmd_id, args[t].data_n_bytes, args[t].data)
       IN  IF e.exc # "none"
           THEN /\ Raise(t, e.exc, FALSE)
                /\ UNCHANGED bytes_command
           ELSE /\ bytes_command' = [bytes_command EXCEPT ![t] = e.bytes_command]
                /\ pc' = [pc EXCEPT ![t] = "port_lock"]
                /\ UNCHANGED <<result, io_lock>>
    /\ UNCHANGED <<connection, args, ans, read_attempts, retval, ops, silent, log>>
    /\ UNCHANGED otherVars

\* with self.io_lock:
PortAcquire(t) ==
    /\ pc[t] = "port_lock"
    /\ io_lock = 0
    /\ io_lock' = t
    /\ pc' = [pc EXCEPT ![t] = "port_write"]
    /\ UNCHANGED <<connection, args, bytes_command, ans, read_attempts,
                   result, retval, ops, silent, log>>
    /\ UNCHANGED otherVars

\* self.ser.write(bytes_command)
PortWrite(t) ==
    /\ pc[t] = "port_write"
    /\ pending' = Received(t)
    /\ ops' = [ops EXCEPT ![t] = Append(@, "w")]
    /\ pc' = [pc EXCEPT ![t] = IF args[t].resp_nbytes = 0 THEN "port_clear0"
                                ELSE "port_read1"]
    /\ UNCHANGED <<connection, io_lock, args, bytes_command, ans, read_attempts,
                   result, retval, silent, log>>
    /\ UNCHANGED <<codecVars, opVars, restVars, sm10Vars, calls, callno, inbuf>>

\* self.clearBuffer() without its argument: TypeError, nothing is cleared
PortClearBufferNoArg(t) ==
    /\ pc[t] = "port_clear0"
    /\ Raise(t, "TypeError", TRUE)
    /\ UNCHANGED <<connection, args, bytes_command, ans, read_attempts,
                   retval, ops, silent, log>>
    /\ UNCHANGED otherVars

\* ans = self.ser.read(size=resp_nbytes); read_attempts = 0
PortFirstRead(t) ==
    /\ pc[t] = "port_read1"
    /\ ans' = [ans EXCEPT ![t] = Bytes(Taken(args[t].resp_nbytes))]
    /\ inbuf' = Left(args[t].resp_nbytes)
    /\ read_attempts' = [read_attempts EXCEPT ![t] = 0]
    /\ ops' = [ops EXCEPT ![t] = Append(@, "r")]
    /\ pc' = [pc EXCEPT ![t] = "port_loop"]
    /\ UNCHANGED <<connection, io_lock, args, bytes_command, result, retval,
                   silent, log>>
    /\ UNCHANGED <<codecVars, opVars, restVars, sm10Vars, calls, callno, pending>>

\* ans += self.ser.read(resp_nbytes - len(ans)); read_attempts += 1
PortLoopRead(t) ==
    /\ pc[t] = "port_loop"
    /\ Len(ans[t].bytes) < args[t].resp_nbytes
    /\ read_attempts[t] < MaxReadAttempts
    /\ LET k == args[t].resp_nbytes - Len(ans[t].bytes)
       IN  /\ ans' = [ans EXCEPT ![t] = Bytes(@.bytes \o Taken(k))]
           /\ inbuf' = Left(k)
    /\ read_attempts' = [read_attempts EXCEPT ![t] = @ + 1]
    /\ ops' = [ops EXCEPT ![t] = Append(@, "r")]
    /\ UNCHANGED <<connection, io_lock, pc, args, bytes_command, result, retval,
                   silent, log>>
    /\ UNCHANGED <<codecVars, opVars, restVars, sm10Vars, calls, callno, pending>>

\* read_attempts >= 5: self.ser.write(bytes_command) again
PortRetransmit(t) ==
    /\ pc[t] = "port_loop"
    /\ Len(ans[t].bytes) < args[t].resp_nbytes
    /\ read_attempts[t] >= MaxReadAttempts
    /\ pending' = Received(t)
    /\ ops' = [ops EXCEPT ![t] = Append(@, "w")]
    /\ pc' = [pc EXCEPT ![t] = "port_final"]
    /\ UNCHANGED <<connection, io_lock, args, bytes_command, ans, read_attempts,
                   result, retval, silent, log>>
    /\ UNCHANGED <<codecVars, opVars, restVars, sm10Vars, calls, callno, inbuf>>

\* ans = self.ser.read(resp_nbytes); still short: raise SerialException,
\* which leaves the with-block without clearing the buffers
PortFinalRead(t) ==
    /\ pc[t] = "port_final"
    /\ ans' = [ans EXCEPT ![t] = Bytes(Taken(args[t].resp_nbytes))]
    /\ inbuf' = Left(args[t].resp_nbytes)
    /\ IF Available(args[t].resp_nbytes) # args[t].resp_nbytes
       THEN Raise(t, "SerialException", TRUE)
       ELSE /\ pc' = [pc EXCEPT ![t] = "port_loop"]
            /\ UNCHANGED <<result, io_lock>>
    /\ ops' = [ops EXCEPT ![t] = Append(@, "r")]
    /\ UNCHANGED <<connection, args, bytes_command, read_attempts, retval,
                   silent, log>>
    /\ UNCHANGED <<codecVars, opVars, restVars, sm10Vars, calls, callno, pending>>

\* the loop is left with a complete response: self.clearBuffer(self.ser)
\* empties the input buffer
PortClearBuffer(t) ==
    /\ pc[t] = "port_loop"
    /\ Len(ans[t].bytes) >= args[t].resp_nbytes
    /\ inbuf' = <<>>
    /\ ops' = [ops EXCEPT ![t] = Append(@, "c")]
    /\ pc' = [pc EXCEPT ![t] = "port_check"]
    /\ UNCHANGED <<connection, io_lock, args, bytes_command, ans, read_attempts,
                   result, retval, silent, log>>
    /\ UNCHANGED <<codecVars, opVars, restVars, sm10Vars, calls, callno, pending>>

\* self.checkResponse(cmd_id, ans) only logs; return ans
PortCheckResponse(t) ==
    /\ pc[t] = "port_check"
    /\ ReturnValue(t, ans[t], TRUE)
    /\ UNCHANGED <<connection, args, bytes_command, ans, read_attempts, ops,
                   silent, log>>
    /\ UNCHANGED otherVars

\* the caller takes the outcome; the locals of the call are gone
PortFinish(t) ==
    /\ pc[t] = "done"
    /\ pc' = [pc EXCEPT ![t] = "idle"]
    /\ LocalsGone(t)
    /\ retval' = [retval EXCEPT ![t] = None]
    /\ callno' = [callno EXCEPT ![t] = 0]
    /\ UNCHANGED <<connection, io_lock>>
    /\ UNCHANGED <<codecVars, opVars, restVars, sm10Vars, calls, inbuf, pending>>

\* the device answers the oldest frame it has not answered yet
DeviceReply ==
    /\ pending # <<>>
    /\ inbuf' = inbuf \o [i \in 1..Head(pending).n |-> Head(pending).call]
    /\ pending' = Tail(pending)
    /\ UNCHANGED threadVars
    /\ UNCHANGED <<connection, codecVars, opVars, sm10Vars, restVars, calls, callno>>

InitPort ==
    /\ connection = "serial"
    /\ ThreadsIdle
    /\ CodecIdle
    /\ OpsIdle
    /\ Sm10Idle
    /\ PortIdle
    /\ RestIdle

NextPort ==
    \/ DeviceReply
    \/ \E t \in Threads :
          \/ PortCall(t)
          \/ PortEncode(t)
          \/ PortAcquire(t)
          \/ PortWrite(t)
          \/ PortClearBufferNoArg(t)
          \/ PortFirstRead(t)
          \/ PortLoopRead(t)
          \/ PortRetransmit(t)
          \/ PortFinalRead(t)
          \/ PortClearBuffer(t)
          \/ PortCheckResponse(t)
          \/ PortFinish(t)

SpecPort == InitPort /\ [][NextPort]_vars

\* C20: the bytes a serial call returns answer a frame written during
\* that same call, never a frame of an earlier call
C20_ResponsePairing ==
    \A t \in Threads :
        (Done(t) /\ result[t] = "returned" /\ ~retval[t].none)
            => \A i \in 1..Len(retval[t].bytes) : retval[t].bytes[i] = callno[t]

----------------------------------------------------------------------------
(* The read phase of the socket branch, with the calls of s.recv counted.  *)
(* The count is followed up to MaxRecvs.                                   *)

MaxRecvs == 8

\* s.recv(resp_nbytes) raises: the except clause logs, the loop goes round
RecvRaises(t) ==
    /\ pc[t] = "recv"
    /\ recvs[t] < MaxRecvs
    /\ recvs' = [recvs EXCEPT ![t] = @ + 1]
    /\ log' = [log EXCEPT ![t] = @ \cup {"recv failed"}]
    /\ UNCHANGED <<connection, io_lock, pc, args, bytes_command, ans,
                   read_attempts, result, retval, ops, silent>>
    /\ UNCHANGED <<codecVars, opVars, sm10Vars, portVars, homeVars, pollVars,
                   queueVars>>

\* ans = s.recv(resp_nbytes) returns: break, return ans
RecvReturns(t) ==
    /\ pc[t] = "recv"
    /\ recvs[t] < MaxRecvs
    /\ recvs' = [recvs EXCEPT ![t] = @ + 1]
    /\ \E chunk \in Chunks(args[t].resp_nbytes) :
          /\ ans' = [ans EXCEPT ![t] = Bytes(chunk)]
          /\ silent' = [silent EXCEPT ![t] = @ /\ chunk = <<>>]
          /\ ReturnValue(t, Bytes(chunk), FALSE)
    /\ ops' = [ops EXCEPT ![t] = Append(@, "r")]
    /\ UNCHANGED <<connection, args, bytes_command, read_attempts, log>>
    /\ UNCHANGED <<codecVars, opVars, sm10Vars, portVars, homeVars, pollVars,
                   queueVars>>

\* the caller takes the outcome; the locals of the call are gone
RecvFinish(t) ==
    /\ pc[t] = "done"
    /\ pc' = [pc EXCEPT ![t] = "idle"]
    /\ LocalsGone(t)
    /\ retval' = [retval EXCEPT ![t] = None]
    /\ recvs' = [recvs EXCEPT ![t] = 0]
    /\ UNCHANGED <<connection, io_lock>>
    /\ UNCHANGED <<codecVars, opVars, sm10Vars, portVars, homeVars, pollVars,
                   queueVars>>

NextRecv ==
    \E t \in Threads :
        \/ Call(t)
        \/ Encode(t)
        \/ ConnectFail(t)
        \/ ConnectOk(t)
        \/ SendAll(t)
        \/ RecvRaises(t)
        \/ RecvReturns(t)
        \/ RecvFinish(t)

SpecRecv == InitSocket /\ [][NextRecv]_vars

\* the number of reads among the transport operations of a call
Reads(o) == Cardinality({i \in 1..Len(o) : o[i] = "r"})

\* C21: after the write a call makes at most as many read attempts as the
\* retry count fixes (the first read, MaxReadAttempts re-reads and the
\* final read), on the serial and on the socket transport
C21_BoundedReadPhase ==
    \A t \in Threads :
        /\ Reads(ops[t]) <= MaxReadAttempts + 2
        /\ recvs[t] <= MaxReadAttempts + 2

----------------------------------------------------------------------------
(* The command catalog as a function: every operation, called with         *)
(* in-range arguments, and the steps it takes.                             *)

setRampLengthProg(axis, length) ==
    <<CheckStep(length > 0 /\ length < 16, "AssertionError"),
      SendStep(<<0, 0, 3, 10>>, 2, <<axis>>, 4)>>

\* the group commands pass no resp_nbytes: its default is 0
moveAxesToZeroProg(axes, velocity) ==
    <<CheckStep(velocity > 0 /\ velocity < 16, "AssertionError"),
      CheckStep(GroupAddressOk(axes), "IndexError"),
      SendStep(<<10, 0, 2, 4>>, 11,
               <<160>> \o calculateGroupAddress(axes) \o <<velocity>>, 0)>>

stepAxesProg(axes, direction, velocity, distance) ==
    <<CheckStep(velocity > 0 /\ velocity < 16, "AssertionError"),
      CheckStep(GroupAddressOk(axes), "IndexError"),
      CheckStep(direction \in {1, -1}, "UnboundLocalError"),
      SendStep(IF direction = 1 THEN <<10, 1, 4, 0>> ELSE <<10, 1, 4, 1>>, 15,
               <<160>> \o calculateGroupAddress(axes) \o <<velocity, distance>>,
               0)>>

CatalogNames == {"stepAxis", "setStepResolution", "setRampLength",
                 "storePosition", "moveAxis", "stepAxes", "moveAxesToZero",
                 "queryAxesState"}
CatalogAxes == {1, 2, 3}
CatalogAxesLists == {<<1, 2, 3>>, <<1, 2>>, <<7, 8, 9>>}
\* in-range values of the numeric arguments: both ends of (0, 16)
CatalogValues == {1, 15}

\* a call: the operation, its axis or axis list, and two numeric arguments
CatalogCalls ==
    [name : CatalogNames, axis : CatalogAxes, axes : CatalogAxesLists,
     x : CatalogValues, y : CatalogValues]

CatalogProg(c) ==
    CASE c.name = "stepAxis" -> stepAxisProg(c.axis, c.x, c.y)
      [] c.name = "setStepResolution" -> setStepResolutionProg(c.axis, c.x)
      [] c.name = "setRampLength" -> setRampLengthProg(c.axis, c.x)
      [] c.name = "storePosition" -> storePositionProg(c.axis, IF c.x > 5 THEN 5 ELSE c.x)
      [] c.name = "moveAxis" -> moveAxisProg(c.axis, 1, 1, c.x)
      [] c.name = "stepAxes" -> stepAxesProg(c.axes, 1, c.x, c.y)
      [] c.name = "moveAxesToZero" -> moveAxesToZeroProg(c.axes, c.x)
      [] OTHER -> queryAxesStateProg(c.axes)

InitCatalog ==
    /\ connection = "dummy"
    /\ ThreadsIdle
    /\ OpsIdle
    /\ Sm10Idle
    /\ PortIdle
    /\ RestIdle
    /\ pin \in CatalogCalls
    /\ pout = <<>>
    /\ ppc = "in"

BuildCommands ==
    /\ ppc = "in"
    /\ pout' = CatalogProg(pin)
    /\ ppc' = "out"
    /\ UNCHANGED pin
    /\ UNCHANGED threadVars
    /\ UNCHANGED opVars
    /\ UNCHANGED <<sm10Vars, portVars, restVars>>

NextCatalog == BuildCommands

SpecCatalog == InitCatalog /\ [][NextCatalog]_vars

\* C22: every command a catalog operation builds from in-range arguments
\* declares as many payload bytes as its payload has elements
C22_CatalogLengthConsistency ==
    (/\ ppc = "out"
     /\ \A i \in 1..Len(pout) : pout[i].ok)
        => \A i \in 1..Len(pout) :
              pout[i].k = "send" => pout[i].n = Len(pout[i].data)

----------------------------------------------------------------------------
(* Homing: moveHome, moveAxesHome, returnAxisHome and returnAxesHome, run  *)
(* by one thread over every transport.                                     *)

MaxHomeCalls == 3

\* the default None of velocity and direction in moveHome
Default == 0 - 1

\* a step that tests or assigns an attribute of the device object
AttrStep(kind) ==
    [k |-> kind, ok |-> TRUE, exc |-> "none", cmd_id |-> <<>>, n |-> 0,
     data |-> <<>>, resp |-> 0, u |-> 0]

\* "0139"
setHomingVelocityProg(axis, velocity) ==
    <<CheckStep(velocity > 0 /\ velocity < 16, "AssertionError"),
      SendStep(<<0, 1, 3, 9>>, 2, <<axis, velocity>>, 4)>>

\* "013C"
setHomeDirectionProg(axis, direction) ==
    <<SendStep(<<0, 1, 3, 12>>, 2, <<axis, direction>>, 4)>>

\* "0104", then self.homed = True
moveHomeProg(axis, velocity, direction) ==
    (IF velocity # Default THEN setHomingVelocityProg(axis, velocity) ELSE <<>>)
        \o (IF direction # Default THEN setHomeDirectionProg(axis, direction)
            ELSE <<>>)
        \o <<SendStep(<<0, 1, 0, 4>>, 1, <<axis>>, 4), AttrStep("homed = True")>>

\* mutant: the flag is left set after the return-home command
returnAxisHomeProgKeepsFlag(axis) ==
    <<CheckStep(axis >= 1 /\ axis <= 3, "AssertionError"),
      AttrStep("if _homed"),
      SendStep(<<0, 0, 2, 2>>, 1, <<axis>>, 4)>>

\* "0022", sent if self._homed, then self._homed = False
returnAxisHomeProg(axis) ==
    <<CheckStep(axis >= 1 /\ axis <= 3, "AssertionError"),
      AttrStep("if _homed"),
      SendStep(<<0, 0, 2, 2>>, 1, <<axis>>, 4),
      AttrStep("_homed = False")>>

\* "A104", then self._homed = True
moveAxesHomeProg(axes, velocity) ==
    <<CheckStep(GroupAddressOk(axes), "IndexError"),
      SendStep(<<10, 1, 0, 4>>, 11,
               <<160>> \o calculateGroupAddress(axes) \o <<velocity>>, 0),
      AttrStep("_homed = True")>>

\* mutant: the flag is cleared before the return-home command is sent
returnAxesHomeProgClearsFirst(axes, velocity) ==
    <<CheckStep(velocity > 0 /\ velocity < 16, "AssertionError"),
      CheckStep(GroupAddressOk(axes), "IndexError"),
      AttrStep("if _homed"),
      AttrStep("_homed = False"),
      SendStep(<<10, 0, 2, 2>>, 11,
               <<160>> \o calculateGroupAddress(axes) \o <<velocity>>, 0)>>

\* "A022", sent if self._homed, then self._homed = False
returnAxesHomeProg(axes, velocity) ==
    <<CheckStep(velocity > 0 /\ velocity < 16, "AssertionError"),
      CheckStep(GroupAddressOk(axes), "IndexError"),
      AttrStep("if _homed"),
      SendStep(<<10, 0, 2, 2>>, 11,
               <<160>> \o calculateGroupAddress(axes) \o <<velocity>>, 0),
      AttrStep("_homed = False")>>

HomeCommands == {"moveHome", "moveAxesHome"}
ReturnCommands == {"returnAxisHome", "returnAxesHome"}

\* the homing calls made: a single axis is the one-element list
HomeCalls ==
    [name : {"moveHome"}, axes : {<<1>>}, velocity : {Default}]
    \cup [name : {"returnAxisHome"}, axes : {<<1>>, <<2>>},
          velocity : {Default}]
    \cup [name : {"moveAxesHome"}, axes : {<<1>>}, velocity : {5}]
    \cup [name : {"returnAxesHome"}, axes : {<<1, 2>>}, velocity : {5}]

HomeProg(c) ==
    CASE c.name = "moveHome" -> moveHomeProg(c.axes[1], c.velocity, Default)
      [] c.name = "returnAxisHome" -> returnAxisHomeProg(c.axes[1])
      [] c.name = "moveAxesHome" -> moveAxesHomeProg(c.axes, c.velocity)
      [] OTHER -> returnAxesHomeProg(c.axes, c.velocity)

\* the thread calls a homing operation
HomeStart(t) ==
    /\ t \in OpThreads
    /\ pc[t] = "idle"
    /\ Len(home_log) < MaxHomeCalls
    /\ \E c \in HomeCalls :
          /\ op' = [op EXCEPT ![t] = [name |-> c.name, prog |-> HomeProg(c),
                                      issued |-> <<>>, sent |-> <<>>,
                                      outcome |-> "running", value |-> <<>>]]
          /\ home_log' = Append(home_log,
                                [name |-> c.name, axes |-> c.axes,
                                 frames |-> <<>>, warned |-> FALSE,
                                 outcome |-> "running"])
    /\ pc' = [pc EXCEPT ![t] = "op"]
    /\ UNCHANGED <<connection, io_lock, args, bytes_command, ans, read_attempts,
                   result, retval, ops, silent, log>>
    /\ UNCHANGED <<codecVars, unit, selected_axes>>
    /\ UNCHANGED <<sm10Vars, portVars, recvs, _homed, homed, pollVars,
                   queueVars>>

\* the next step of the homing operation, up to and including a call of
\* sendCommand
HomeStep(t) ==
    /\ pc[t] = "op"
    /\ LET o == op[t]
           s == Head(o.prog)
       IN  IF o.prog = <<>>
           THEN /\ op' = [op EXCEPT ![t].outcome = "returned"]
                /\ pc' = [pc EXCEPT ![t] = "opdone"]
                /\ UNCHANGED <<args, homeVars>>
           ELSE CASE s.k = "check" ->
                       /\ IF s.ok
                          THEN /\ op' = [op EXCEPT ![t].prog = Tail(o.prog)]
                               /\ UNCHANGED pc
                          ELSE /\ op' = [op EXCEPT ![t].outcome = s.exc]
                               /\ pc' = [pc EXCEPT ![t] = "opdone"]
                       /\ UNCHANGED <<args, homeVars>>
                  [] s.k = "send" ->
                       /\ args' = [args EXCEPT ![t] =
                                     [cmd_id |-> s.cmd_id, data_n_bytes |-> s.n,
                                      data |-> s.data, resp_nbytes |-> s.resp]]
                       /\ op' = [op EXCEPT ![t].prog = Tail(o.prog)]
                       /\ pc' = [pc EXCEPT ![t] = "encode"]
                       /\ UNCHANGED homeVars
                  [] s.k = "if _homed" ->
                       /\ IF _homed
                          THEN /\ op' = [op EXCEPT ![t].prog = Tail(o.prog)]
                               /\ UNCHANGED home_log
                          ELSE /\ op' = [op EXCEPT ![t].prog = <<>>]
                               /\ home_log' = [home_log EXCEPT
                                                 ![Len(home_log)].warned = TRUE]
                       /\ UNCHANGED <<args, pc, _homed, homed>>
                  [] s.k = "homed = True" ->
                       /\ homed' = TRUE
                       /\ op' = [op EXCEPT ![t].prog = Tail(o.prog)]
                       /\ UNCHANGED <<args, pc, _homed, home_log>>
                  [] OTHER ->
                       /\ _homed' = (s.k = "_homed = True")
                       /\ op' = [op EXCEPT ![t].prog = Tail(o.prog)]
                       /\ UNCHANGED <<args, pc, homed, home_log>>
    /\ UNCHANGED <<connection, io_lock, bytes_command, ans, read_attempts,
                   result, retval, ops, silent, log>>
    /\ UNCHANGED <<codecVars, unit, selected_axes>>
    /\ UNCHANGED <<sm10Vars, portVars, recvs, pollVars, queueVars>>

\* the caller of the homing operation takes its outcome
HomeEnd(t) ==
    /\ pc[t] = "opdone"
    /\ home_log' = [home_log EXCEPT
                      ![Len(home_log)].frames =
                          [i \in 1..Len(op[t].sent) |-> op[t].sent[i].cmd_id],
                      ![Len(home_log)].outcome = op[t].outcome]
    /\ op' = [op EXCEPT ![t] = NoOp]
    /\ retval' = [retval EXCEPT ![t] = None]
    /\ pc' = [pc EXCEPT ![t] = "idle"]
    /\ UNCHANGED <<connection, io_lock, args, bytes_command, ans, read_attempts,
                   result, ops, silent, log>>
    /\ UNCHANGED <<codecVars, unit, selected_axes>>
    /\ UNCHANGED <<sm10Vars, portVars, recvs, _homed, homed, pollVars,
                   queueVars>>

NextHome ==
    \/ \E t \in OpThreads :
          \/ HomeStart(t)
          \/ HomeStep(t)
          \/ OpResume(t)
          \/ HomeEnd(t)
    \/ \E t \in Threads :
          \/ Encode(t)
          \/ Acquire(t)
          \/ SerWrite(t)
          \/ ClearBufferNoArg(t)
          \/ FirstRead(t)
          \/ LoopRead(t)
          \/ Retransmit(t)
          \/ FinalRead(t)
          \/ ClearBuffer(t)
          \/ CheckResponse(t)
          \/ ConnectFail(t)
          \/ ConnectOk(t)
          \/ SendAll(t)
          \/ RecvError(t)
          \/ Recv(t)
          \/ Dummy(t)

SpecHome == Init /\ [][NextHome]_vars

\* the i-th homing call was a return-home command that wrote its frame
ReturnSent(i) ==
    /\ home_log[i].name \in ReturnCommands
    /\ home_log[i].frames # <<>>

\* the j-th homing call was a home command that completed
HomeCompleted(j) ==
    /\ home_log[j].name \in HomeCommands
    /\ home_log[j].outcome = "returned"

\* C23: a return-home command writes its frame only with the homed flag set
\* and leaves the flag clear, so a completed home command lies before the
\* first transmitted return-home command and between any two of them; with
\* the flag clear nothing is sent
C23_ReturnHomeGuard ==
    /\ \A i \in 1..Len(home_log) :
          /\ ReturnSent(i) =>
                \E j \in 1..(i - 1) :
                   /\ HomeCompleted(j)
                   /\ \A k \in (j + 1)..(i - 1) : ~ReturnSent(k)
          /\ home_log[i].warned => home_log[i].frames = <<>>
    /\ \A t \in OpThreads :
          (/\ op[t].name \in ReturnCommands
           /\ pc[t] \notin {"idle", "op", "opdone"})
              => _homed
    /\ (/\ home_log # <<>>
        /\ ReturnSent(Len(home_log))
        /\ home_log[Len(home_log)].outcome = "returned")
           => ~_homed

\* a home command completed, a return-home command was transmitted and the
\* next return-home command was refused
C23_Witness ==
    /\ Len(home_log) = 3
    /\ HomeCompleted(1)
    /\ ReturnSent(2)
    /\ home_log[2].outcome = "returned"
    /\ home_log[3].name \in ReturnCommands
    /\ home_log[3].warned
    /\ home_log[3].outcome = "returned"

\* over the serial port moveAxesHome raises before it sets the flag
SerialNeverHomed == connection = "serial" => ~_homed

\* C24: returnAxisHome(axis) called after a completed moveHome(axis), with no
\* return-home call in between, is not refused with the warning
C24_HomeThenReturn ==
    \A i \in 1..Len(home_log) :
       (/\ home_log[i].name = "returnAxisHome"
        /\ home_log[i].outcome = "returned"
        /\ i > 1
        /\ home_log[i - 1].name = "moveHome"
        /\ home_log[i - 1].axes = home_log[i].axes
        /\ home_log[i - 1].outcome = "returned")
           => ~home_log[i].warned

AxesOf(i) == {home_log[i].axes[k] : k \in 1..Len(home_log[i].axes)}

\* C29: a return-home command is transmitted for an axis only if a home
\* command was made for that axis before and no transmitted return-home
\* command for the axis lies in between
C29_PerAxisHoming ==
    \A i \in 1..Len(home_log) :
       ReturnSent(i) =>
          \A a \in AxesOf(i) :
             \E j \in 1..(i - 1) :
                /\ home_log[j].name \in HomeCommands
                /\ a \in AxesOf(j)
                /\ \A k \in (j + 1)..(i - 1) :
                      ~(ReturnSent(k) /\ a \in AxesOf(k))

----------------------------------------------------------------------------
(* The group address encoder on two axis sets at a time.                   *)

\* the sets of axes as lists in increasing order
AxisLists ==
    {q \in SeqsUpTo(AxisIds, MaxAxes) :
        \A i \in 1..(Len(q) - 1) : q[i] < q[i + 1]}

InitGroupPair ==
    /\ connection = "dummy"
    /\ ThreadsIdle
    /\ OpsIdle
    /\ Sm10Idle
    /\ PortIdle
    /\ RestIdle
    /\ pin \in AxisLists \X AxisLists
    /\ pout = <<>>
    /\ ppc = "in"

GroupAddressPair ==
    /\ ppc = "in"
    /\ pout' = <<calculateGroupAddress(pin[1]), calculateGroupAddress(pin[2])>>
    /\ ppc' = "out"
    /\ UNCHANGED pin
    /\ UNCHANGED threadVars
    /\ UNCHANGED opVars
    /\ UNCHANGED <<sm10Vars, portVars, restVars>>

NextGroupPair == GroupAddressPair

SpecGroupPair == InitGroupPair /\ [][NextGroupPair]_vars

\* C25: two different sets of axes drawn from 1, 2, 3, 4, 7, 8, 9 have
\* different group addresses
C25_GroupAddressInjective ==
    (ppc = "out" /\ pin[1] # pin[2]) => pout[1] # pout[2]

\* the call of thread t has sent its frame and not yet received the reply
InFlight(t) == connection = "socket" /\ pc[t] = "recv"

\* C26: on the socket transport no two calls of sendCommand are between
\* their send and their receive at the same time
C26_OneCommandInFlight ==
    \A t1, t2 \in Threads : (InFlight(t1) /\ InFlight(t2)) => t1 = t2

----------------------------------------------------------------------------
(* crc16 alone, on two payloads at a time.                                 *)

InitCrcPair ==
    /\ connection = "dummy"
    /\ ThreadsIdle
    /\ OpsIdle
    /\ Sm10Idle
    /\ PortIdle
    /\ RestIdle
    /\ pin \in FramePayloads \X FramePayloads
    /\ pout = <<>>
    /\ ppc = "in"

Crc16Pair ==
    /\ ppc = "in"
    /\ pout' = <<crc16(pin[1]), crc16(pin[2])>>
    /\ ppc' = "out"
    /\ UNCHANGED pin
    /\ UNCHANGED threadVars
    /\ UNCHANGED opVars
    /\ UNCHANGED <<sm10Vars, portVars, restVars>>

NextCrcPair == Crc16Pair

SpecCrcPair == InitCrcPair /\ [][NextCrcPair]_vars

\* C27: two payloads with the same number of bytes have the same pair of
\* checksum bytes, whatever the bytes are
C27_CrcDependsOnLengthOnly ==
    (ppc = "out" /\ Len(pin[1]) = Len(pin[2])) => pout[1] = pout[2]

\* two payloads of the greatest length without a byte in common were summed
C27_Witness ==
    /\ ppc = "out"
    /\ Len(pin[1]) = CodecMaxLen
    /\ Len(pin[2]) = CodecMaxLen
    /\ \A i \in 1..CodecMaxLen : pin[1][i] # pin[2][i]
    /\ pout[1] = pout[2]

----------------------------------------------------------------------------
(* getGroupAddress of manipulator.py next to calculateGroupAddress of     *)
(* devices.py, on the same axis list.                                      *)

\* v in axes
In(v, axes) == \E k \in 1..Len(axes) : axes[k] = v

\* the lookup table; None when no branch of the if chain is taken
getGroupAddress(axes) ==
    IF In(1, axes) /\ In(2, axes) /\ In(3, axes)
    THEN Bytes(<<0, 0, 0, 0, 0, 0, 0, 0, 7>>)
    ELSE IF In(1, axes) /\ In(2, axes) /\ ~In(3, axes)
    THEN Bytes(<<0, 0, 0, 0, 0, 0, 0, 0, 3>>)
    ELSE IF In(1, axes) /\ ~In(2, axes) /\ In(3, axes)
    THEN Bytes(<<0, 0, 0, 0, 0, 0, 0, 0, 5>>)
    ELSE IF ~In(1, axes) /\ In(2, axes) /\ In(3, axes)
    THEN Bytes(<<0, 0, 0, 0, 0, 0, 0, 0, 6>>)
    ELSE None

LookupAxes == {1, 2, 3, 4}

InitLookup ==
    /\ connection = "dummy"
    /\ ThreadsIdle
    /\ OpsIdle
    /\ Sm10Idle
    /\ PortIdle
    /\ RestIdle
    /\ pin \in SeqsUpTo(LookupAxes, MaxAxes)
    /\ pout = <<>>
    /\ ppc = "in"

BothGroupAddresses ==
    /\ ppc = "in"
    /\ pout' = <<getGroupAddress(pin), Bytes(calculateGroupAddress(pin))>>
    /\ ppc' = "out"
    /\ UNCHANGED pin
    /\ UNCHANGED threadVars
    /\ UNCHANGED opVars
    /\ UNCHANGED <<sm10Vars, portVars, restVars>>

NextLookup == BothGroupAddresses

SpecLookup == InitLookup /\ [][NextLookup]_vars

\* C28: on every axis list over 1, 2, 3, 4 for which getGroupAddress returns
\* an address, calculateGroupAddress returns the same nine bytes
C28_LookupMatchesBitPacking ==
    (ppc = "out" /\ pout[1] # None) => pout[1] = pout[2]

----------------------------------------------------------------------------
(* The polling handshake of interface.py: AcquisitionWorker.run in the     *)
(* worker thread, runGui, dataReadyCallback and onExit in the GUI thread.  *)
(* data_ready is emitted in the worker thread and delivered to the GUI     *)
(* thread through its event queue.                                         *)

\* the classes an AcquisitionWorker is given as its manipulator: Interface
\* passes devices.LNSM10, whose readManipulator takes no axis list
WorkerManipulators == {"devices.LNSM10", "manipulator.LuigsAndNeumannSM10"}

\* what readManipulator returns: four None or four positions
PollData == {"none4", "pos1", "pos2"}

nonPollVars == <<threadVars, codecVars, opVars, sm10Vars, portVars, recvs,
                 homeVars, queueVars>>

\* Interface.__init__ is over: the worker thread has been started
InitPoll ==
    /\ connection = "dummy"
    /\ ThreadsIdle
    /\ CodecIdle
    /\ OpsIdle
    /\ Sm10Idle
    /\ PortIdle
    /\ RecvIdle
    /\ HomeIdle
    /\ QueueIdle
    /\ manipulator \in WorkerManipulators
    /\ keep_running = TRUE
    /\ mutex = FALSE
    /\ waiting = FALSE
    /\ wpc = "while"
    /\ gpc = "runGui"
    /\ events = 0
    /\ worker_data = "unset"
    /\ shown = "unset"

\* while self.keep_running: ... ; self.finished.emit()
RunTest ==
    /\ wpc = "while"
    /\ wpc' = IF keep_running THEN "lock" ELSE "finished"
    /\ UNCHANGED <<manipulator, keep_running, mutex, waiting, gpc, events,
                   worker_data, shown>>
    /\ UNCHANGED nonPollVars

\* self.mutex.lock()
MutexLock ==
    /\ wpc = "lock"
    /\ ~mutex
    /\ mutex' = TRUE
    /\ wpc' = "wait"
    /\ UNCHANGED <<manipulator, keep_running, waiting, gpc, events,
                   worker_data, shown>>
    /\ UNCHANGED nonPollVars

\* self.wait_condition.wait(self.mutex): the mutex is released and the
\* thread blocks, in one step
Wait ==
    /\ wpc = "wait"
    /\ mutex' = FALSE
    /\ waiting' = TRUE
    /\ wpc' = "blocked"
    /\ UNCHANGED <<manipulator, keep_running, gpc, events, worker_data, shown>>
    /\ UNCHANGED nonPollVars

\* wait returns once the thread has been woken, with the mutex locked again
Woken ==
    /\ wpc = "blocked"
    /\ ~waiting
    /\ ~mutex
    /\ mutex' = TRUE
    /\ wpc' = "unlock"
    /\ UNCHANGED <<manipulator, keep_running, waiting, gpc, events,
                   worker_data, shown>>
    /\ UNCHANGED nonPollVars

\* self.mutex.unlock()
MutexUnlock ==
    /\ wpc = "unlock"
    /\ mutex' = FALSE
    /\ wpc' = "read"
    /\ UNCHANGED <<manipulator, keep_running, waiting, gpc, events,
                   worker_data, shown>>
    /\ UNCHANGED nonPollVars

\* time.sleep(0.1); self.data = self.manipulator.readManipulator([1, 2, 3]):
\* LNSM10.readManipulator(self) takes no axis list, the call raises TypeError
\* and run is left
Read ==
    /\ wpc = "read"
    /\ IF manipulator = "devices.LNSM10"
       THEN /\ wpc' = "raised"
            /\ UNCHANGED worker_data
       ELSE /\ worker_data' \in PollData
            /\ wpc' = "emit"
    /\ UNCHANGED <<manipulator, keep_running, mutex, waiting, gpc, events, shown>>
    /\ UNCHANGED nonPollVars

\* self.data_ready.emit()
Emit ==
    /\ wpc = "emit"
    /\ events' = events + 1
    /\ wpc' = "while"
    /\ UNCHANGED <<manipulator, keep_running, mutex, waiting, gpc,
                   worker_data, shown>>
    /\ UNCHANGED nonPollVars

\* runGui: show the window, getCurrentPosition calls wakeOne, then the event
\* loop; wakeOne wakes a thread that is waiting and is lost otherwise
GetCurrentPosition ==
    /\ gpc = "runGui"
    /\ waiting' = FALSE
    /\ gpc' = "exec"
    /\ UNCHANGED <<manipulator, keep_running, mutex, wpc, events, worker_data,
                   shown>>
    /\ UNCHANGED nonPollVars

\* the event loop takes a queued data_ready and enters dataReadyCallback
Deliver ==
    /\ gpc = "exec"
    /\ events > 0
    /\ events' = events - 1
    /\ gpc' = "callback"
    /\ UNCHANGED <<manipulator, keep_running, mutex, waiting, wpc, worker_data,
                   shown>>
    /\ UNCHANGED nonPollVars

\* updatePositionBoxes(self.acquisition_worker.data): positions are shown,
\* None cannot be formatted and the error is logged
UpdatePositionBoxes ==
    /\ gpc = "callback"
    /\ shown' = IF worker_data \in {"pos1", "pos2"} THEN worker_data ELSE shown
    /\ gpc' = "finally"
    /\ UNCHANGED <<manipulator, keep_running, mutex, waiting, wpc, events,
                   worker_data>>
    /\ UNCHANGED nonPollVars

\* finally: self.worker_wait_condition.wakeOne()
CallbackWakeOne ==
    /\ gpc = "finally"
    /\ waiting' = FALSE
    /\ gpc' = "exec"
    /\ UNCHANGED <<manipulator, keep_running, mutex, wpc, events, worker_data,
                   shown>>
    /\ UNCHANGED nonPollVars

\* onExit: self.acquisition_worker.stop()
OnExitStop ==
    /\ gpc = "exec"
    /\ keep_running' = FALSE
    /\ gpc' = "terminate"
    /\ UNCHANGED <<manipulator, mutex, waiting, wpc, events, worker_data, shown>>
    /\ UNCHANGED nonPollVars

\* onExit: self.acquisition_thread.terminate()
OnExitTerminate ==
    /\ gpc = "terminate"
    /\ wpc' = "terminated"
    /\ waiting' = FALSE
    /\ gpc' = "quit"
    /\ UNCHANGED <<manipulator, keep_running, mutex, events, worker_data, shown>>
    /\ UNCHANGED nonPollVars

WorkerNext ==
    \/ RunTest
    \/ MutexLock
    \/ Wait
    \/ Woken
    \/ MutexUnlock
    \/ Read
    \/ Emit

GuiNext ==
    \/ GetCurrentPosition
    \/ Deliver
    \/ UpdatePositionBoxes
    \/ CallbackWakeOne

NextPoll ==
    \/ WorkerNext
    \/ GuiNext
    \/ OnExitStop
    \/ OnExitTerminate

\* both threads are scheduled fairly; nothing makes the user quit
FairPoll ==
    /\ WF_vars(WorkerNext)
    /\ WF_vars(GuiNext)
    /\ WF_vars(OnExitTerminate)

SpecPoll == InitPoll /\ [][NextPoll]_vars /\ FairPoll

C31_WorkerShutdown == (~keep_running) ~> (wpc = "finished")

----------------------------------------------------------------------------
(* approachAxesPosition alone, on 1 to 4 axes with one position per axis.  *)

RECURSIVE convertListToFloatBytes(_)
\* convertToFloatBytes of a list: the four bytes of every item, in order
convertListToFloatBytes(arg) ==
    IF arg = <<>> THEN <<>>
    ELSE convertToFloatBytes(Head(arg)) \o convertListToFloatBytes(Tail(arg))

\* adr = [0] * 4; adr[:len(axes)] = axes; pos = [0] * 4;
\* pos[:len(pos)] = positions replaces all four zeros by the positions
approachAxesPositionProg(axes, approach_mode, positions, speed_mode) ==
    LET cmd_id == IF approach_mode = 0
                  THEN (IF speed_mode = 1 THEN <<10, 0, 4, 8>>
                        ELSE <<10, 0, 4, 9>>)
                  ELSE (IF speed_mode = 1 THEN <<10, 0, 4, 10>>
                        ELSE <<10, 0, 4, 11>>)
        adr == PadAxes(axes)
        pos == convertListToFloatBytes(positions)
    IN  <<CheckStep(approach_mode \in {0, 1} /\ speed_mode \in {0, 1},
                    "UnboundLocalError"),
          SendStep(cmd_id, 1 + Len(adr) + Len(pos), <<160>> \o adr \o pos, 0)>>

\* the floats 0.0 and 100.0 as bit patterns
ApproachPositions == {0, 1120403456}
ApproachAxesLists == {<<1>>, <<3>>, <<1, 2>>, <<1, 2, 3>>, <<1, 2, 3, 4>>}

InitApproach ==
    /\ connection = "dummy"
    /\ ThreadsIdle
    /\ OpsIdle
    /\ Sm10Idle
    /\ PortIdle
    /\ RestIdle
    /\ \E axes \in ApproachAxesLists :
          pin \in [axes : {axes}, approach_mode : {0, 1},
                   positions : [1..Len(axes) -> ApproachPositions],
                   speed_mode : {0, 1}]
    /\ pout = <<>>
    /\ ppc = "in"

BuildApproach ==
    /\ ppc = "in"
    /\ pout' = approachAxesPositionProg(pin.axes, pin.approach_mode,
                                        pin.positions, pin.speed_mode)
    /\ ppc' = "out"
    /\ UNCHANGED pin
    /\ UNCHANGED threadVars
    /\ UNCHANGED opVars
    /\ UNCHANGED <<sm10Vars, portVars, restVars>>

NextApproach == BuildApproach

SpecApproach == InitApproach /\ [][NextApproach]_vars

\* the i-th position of the call, 0.0 beyond the positions given
PaddedPosition(i) == IF i <= Len(pin.positions) THEN pin.positions[i] ELSE 0

\* C32: the payload of approachAxesPosition is 21 bytes: 0xA0, the four
\* address bytes (axes, then zeros) and four positions of four bytes each
\* (positions, then zeros), the i-th position after the i-th address byte
C32_ApproachPayloadShape ==
    ppc = "out" =>
        LET d == pout[2].data
        IN  /\ Len(d) = 21
            /\ d = <<160>> \o PadAxes(pin.axes)
                     \o convertToFloatBytes(PaddedPosition(1))
                     \o convertToFloatBytes(PaddedPosition(2))
                     \o convertToFloatBytes(PaddedPosition(3))
                     \o convertToFloatBytes(PaddedPosition(4))

\* the selected unit changes only by a setUnit call that does not fail, and
\* only to 1 or 2; during a setUnit call the selected axes and the homed
\* flag stay as they are
SetUnitFrame ==
    /\ (unit' # unit) =>
          /\ unit' \in {1, 2}
          /\ \E t \in OpThreads :
                /\ op[t].name = "setUnit"
                /\ op'[t].outcome # "AssertionError"
    /\ (\E t \in OpThreads : op[t].name = "setUnit") =>
          /\ selected_axes' = selected_axes
          /\ _homed' = _homed
          /\ homed' = homed

\* C33: setUnit accepts exactly 1 and 2; a call with another value fails and
\* leaves the unit as it was, so the unit is always 1 or 2; setUnit changes
\* nothing else in the driver state
C33_SetUnitRange ==
    /\ [](unit \in {1, 2})
    /\ [](\A t \in OpThreads :
             (op[t].name = "setUnit" /\ op[t].outcome = "AssertionError")
                 => Head(op[t].prog).k = "check")
    /\ [][SetUnitFrame]_vars

\* setUnit(2) was accepted and a later call with another value has failed
C33_Witness ==
    /\ unit = 2
    /\ op[1].name = "setUnit"
    /\ op[1].outcome = "AssertionError"

----------------------------------------------------------------------------
(* Homing over a transport that can fail: s.sendall raises.                *)

\* s.sendall(bytes_command) raises (the peer has closed the connection):
\* the with block closes the socket and the exception leaves sendCommand
SendAllRaises(t) ==
    /\ pc[t] = "sendall"
    /\ Raise(t, "OSError", FALSE)
    /\ UNCHANGED <<connection, args, bytes_command, ans, read_attempts, retval,
                   ops, silent, log>>
    /\ UNCHANGED otherVars

NextHomeFail ==
    \/ NextHome
    \/ \E t \in Threads : SendAllRaises(t)

SpecHomeFail == Init /\ [][NextHomeFail]_vars

\* the flag changes only in a homing call whose sendCommand has returned
HomedAfterSend ==
    (_homed' # _homed) =>
        \E t \in OpThreads :
           /\ pc[t] = "op"
           /\ op[t].outcome = "running"
           /\ op[t].issued # <<>>

\* C34: the homed flag changes only after a send that succeeded: when
\* sendCommand raises in moveAxesHome the flag is left as it was, when it
\* raises in returnAxisHome or returnAxesHome the flag stays set
C34_FlagChangesAfterSend ==
    /\ [][HomedAfterSend]_vars
    /\ [](\A i \in 1..Len(home_log) :
             (/\ i = Len(home_log)
              /\ home_log[i].name \in ReturnCommands
              /\ home_log[i].outcome \notin {"running", "returned",
                                             "AssertionError", "IndexError"})
                 => _homed)

\* sendCommand raised in a return-home command and the flag is still set
C34_Witness ==
    /\ home_log # <<>>
    /\ home_log[Len(home_log)].name \in ReturnCommands
    /\ home_log[Len(home_log)].outcome = "OSError"
    /\ _homed

----------------------------------------------------------------------------
(* The group address encoder on two axis lists in any order, with repeats, *)
(* over axes from both ends of 1..72.                                      *)

WideAxisIds == {1, 5, 8, 72}

InitGroupLists ==
    /\ connection = "dummy"
    /\ ThreadsIdle
    /\ OpsIdle
    /\ Sm10Idle
    /\ PortIdle
    /\ RestIdle
    /\ pin \in SeqsUpTo(WideAxisIds, MaxAxes) \X SeqsUpTo(WideAxisIds, MaxAxes)
    /\ pout = <<>>
    /\ ppc = "in"

SpecGroupLists == InitGroupLists /\ [][NextGroupPair]_vars

AxisSet(axes) == {axes[k] : k \in 1..Len(axes)}

\* C35: calculateGroupAddress returns nine integers in 0..255, and the same
\* nine for two lists with the same set of axes
C35_GroupAddressShape ==
    ppc = "out" =>
        /\ \A k \in 1..2 :
              /\ Len(pout[k]) = 9
              /\ \A i \in 1..Len(pout[k]) : pout[k][i] \in 0..255
        /\ AxisSet(pin[1]) = AxisSet(pin[2]) => pout[1] = pout[2]

\* two different lists of the greatest length with the same axes, axis 72
\* among them, one list with a repeat
C35_Witness ==
    /\ ppc = "out"
    /\ pin[1] # pin[2]
    /\ Len(pin[1]) = MaxAxes
    /\ Len(pin[2]) < MaxAxes
    /\ AxisSet(pin[1]) = AxisSet(pin[2])
    /\ 72 \in AxisSet(pin[1])
    /\ pout[1] = pout[2]
    /\ pout[1][1] = 8

----------------------------------------------------------------------------
(* The exclusive section of sendCommand's serial branch with several       *)
(* callers: 'with self.io_lock:' is threading.Lock.acquire, which takes a  *)
(* free lock at once and blocks on a held one; when the lock is released   *)
(* any one of the blocked callers, or a caller arriving then, gets it.     *)

nonQueueVars == <<threadVars, codecVars, opVars, sm10Vars, portVars, recvs,
                  homeVars, pollVars>>

\* with self.io_lock: the lock is free and taken, or the caller blocks
EnterWith(c) ==
    /\ qpc[c] = "idle"
    /\ IF lock_owner = 0
       THEN /\ lock_owner' = c
            /\ qpc' = [qpc EXCEPT ![c] = "write"]
            /\ UNCHANGED blocked
       ELSE /\ qpc' = [qpc EXCEPT ![c] = "blocked"]
            /\ blocked' = Append(blocked, c)
            /\ UNCHANGED lock_owner
    /\ UNCHANGED wire
    /\ UNCHANGED nonQueueVars

\* a blocked caller gets the released lock
Unblock(c) ==
    /\ qpc[c] = "blocked"
    /\ lock_owner = 0
    /\ lock_owner' = c
    /\ qpc' = [qpc EXCEPT ![c] = "write"]
    /\ UNCHANGED <<blocked, wire>>
    /\ UNCHANGED nonQueueVars

\* self.ser.write(bytes_command)
WriteFrame(c) ==
    /\ qpc[c] = "write"
    /\ wire' = Append(wire, c)
    /\ qpc' = [qpc EXCEPT ![c] = "read"]
    /\ UNCHANGED <<lock_owner, blocked>>
    /\ UNCHANGED nonQueueVars

\* the rest of the with block, then the lock is released
LeaveWith(c) ==
    /\ qpc[c] = "read"
    /\ lock_owner' = 0
    /\ qpc' = [qpc EXCEPT ![c] = "done"]
    /\ UNCHANGED <<blocked, wire>>
    /\ UNCHANGED nonQueueVars

InitQueue ==
    /\ connection = "serial"
    /\ ThreadsIdle
    /\ CodecIdle
    /\ OpsIdle
    /\ Sm10Idle
    /\ PortIdle
    /\ RestIdle

NextQueue ==
    \E c \in Callers :
        \/ EnterWith(c)
        \/ Unblock(c)
        \/ WriteFrame(c)
        \/ LeaveWith(c)

SpecQueue == InitQueue /\ [][NextQueue]_vars

\* the position of caller c in the sequence q, 0 when it is not in it
PosIn(c, q) ==
    IF \E i \in 1..Len(q) : q[i] = c
    THEN CHOOSE i \in 1..Len(q) : q[i] = c
    ELSE 0

\* C36: callers that were blocked on the lock write their frames in the
\* order in which they blocked
C36_SubmissionOrder ==
    \A i, j \in 1..Len(blocked) :
       (i < j /\ PosIn(blocked[j], wire) # 0)
           => /\ PosIn(blocked[i], wire) # 0
              /\ PosIn(blocked[i], wire) < PosIn(blocked[j], wire)


----------------------------------------------------------------------------
(* The velocity stage of the operations that take one.                     *)

\* "0144" or "018F"; data = axis + [velocity] is a list only if axis is
\* one: with the integer axis of the docstring the sum raises TypeError
setPositioningVelocityProg(axis, axis_is_list, speed_mode, velocity) ==
    <<CheckStep(TRUE, "AssertionError"),
      CheckStep(velocity > 0 /\ velocity < 16, "AssertionError"),
      CheckStep(speed_mode \in {0, 1}, "UnboundLocalError"),
      CheckStep(axis_is_list, "TypeError"),
      SendStep(IF speed_mode = 1 THEN <<0, 1, 4, 4>> ELSE <<0, 1, 8, 15>>,
               2, <<axis, velocity>>, 4)>>

\* "A110"
approachStoredAxesPositionProg(axes, slot_number, velocity) ==
    <<CheckStep(slot_number > 0 /\ slot_number <= 5, "AssertionError"),
      CheckStep(velocity > 0 /\ velocity < 16, "AssertionError"),
      CheckStep(GroupAddressOk(axes), "IndexError"),
      SendStep(<<10, 1, 1, 0>>, 12,
               <<160>> \o calculateGroupAddress(axes)
                   \o <<slot_number, velocity>>, 0)>>

VelocityNames == {"setStepVelocity", "setMovementVelocity",
                  "setPositioningVelocity", "setHomingVelocity",
                  "moveAxesToZero", "approachStoredAxesPosition", "stepAxes",
                  "returnAxesHome"}
\* both sides of both ends of the range (0, 16)
VelocityStages == {0 - 1, 0, 1, 8, 15, 16, 17}
VelocityAxesLists == {<<1>>, <<1, 2, 3>>}
VelocitySlots == {1, 5}

\* a call: the operation, its axes (the first one where it takes a single
\* axis), whether the single axis is passed as a list, the velocity stage
\* and the slot number
VelocityCalls ==
    [name : VelocityNames, axes : VelocityAxesLists, axis_is_list : BOOLEAN,
     velocity : VelocityStages, slot_number : VelocitySlots]

VelocityProg(c) ==
    CASE c.name = "setStepVelocity" ->
             setStepVelocityProg(Head(c.axes), c.velocity)
      [] c.name = "setMovementVelocity" ->
             setMovementVelocityProg(Head(c.axes), 1, c.velocity)
      [] c.name = "setPositioningVelocity" ->
             setPositioningVelocityProg(Head(c.axes), c.axis_is_list, 1,
                                        c.velocity)
      [] c.name = "setHomingVelocity" ->
             setHomingVelocityProg(Head(c.axes), c.velocity)
      [] c.name = "moveAxesToZero" -> moveAxesToZeroProg(c.axes, c.velocity)
      [] c.name = "approachStoredAxesPosition" ->
             approachStoredAxesPositionProg(c.axes, c.slot_number, c.velocity)
      [] c.name = "stepAxes" -> stepAxesProg(c.axes, 1, c.velocity, 1)
      [] OTHER -> returnAxesHomeProg(c.axes, c.velocity)

InitVelocity ==
    /\ connection = "dummy"
    /\ ThreadsIdle
    /\ OpsIdle
    /\ Sm10Idle
    /\ PortIdle
    /\ RestIdle
    /\ pin \in VelocityCalls
    /\ pout = <<>>
    /\ ppc = "in"

BuildVelocityCommand ==
    /\ ppc = "in"
    /\ pout' = VelocityProg(pin)
    /\ ppc' = "out"
    /\ UNCHANGED pin
    /\ UNCHANGED threadVars
    /\ UNCHANGED opVars
    /\ UNCHANGED <<sm10Vars, portVars, restVars>>

NextVelocity == BuildVelocityCommand

SpecVelocity == InitVelocity /\ [][NextVelocity]_vars

\* the operation raises AssertionError
AssertFails(prog) ==
    \E i \in 1..Len(prog) :
        /\ ~prog[i].ok
        /\ prog[i].exc = "AssertionError"
        /\ \A j \in 1..(i - 1) : prog[j].ok

\* the operation gets as far as a command that carries the velocity
SendsVelocity(prog, velocity) ==
    \E i \in 1..Len(prog) :
        /\ prog[i].k = "send"
        /\ prog[i].data[Len(prog[i].data)] = velocity
           \/ (Len(prog[i].data) > 1
               /\ prog[i].data[Len(prog[i].data) - 1] = velocity)
        /\ \A j \in 1..(i - 1) : prog[j].ok

----------------------------------------------------------------------------
(* The step count of stepAxis, on two calls side by side.                  *)

\* the step counts tried: the range (-127, 127) and what lies just outside
MaxSteps == 128
StepCounts == (0 - MaxSteps)..MaxSteps
StepResolutions == {1, 254}

InitStepPair ==
    /\ connection = "dummy"
    /\ ThreadsIdle
    /\ OpsIdle
    /\ Sm10Idle
    /\ PortIdle
    /\ RestIdle
    /\ pin \in [a : StepCounts, b : StepCounts, resolution : StepResolutions]
    /\ pout = <<>>
    /\ ppc = "in"

StepAxisPair ==
    /\ ppc = "in"
    /\ pout' = <<stepAxisProg(1, pin.a, pin.resolution),
                 stepAxisProg(1, pin.b, pin.resolution)>>
    /\ ppc' = "out"
    /\ UNCHANGED pin
    /\ UNCHANGED threadVars
    /\ UNCHANGED opVars
    /\ UNCHANGED <<sm10Vars, portVars, restVars>>

NextStepPair == StepAxisPair

SpecStepPair == InitStepPair /\ [][NextStepPair]_vars

\* the byte that stepAxis puts after the axis in its step command "0147"
MappedSteps(prog) == prog[Len(prog)].data[2]

----------------------------------------------------------------------------
(* LuigsAndNeumannSM10.calculateCRC as a function of the payload.          *)

\* byte values with the top bit clear and set
CrcBytes == {0, 1, 16, 128, 129, 255}
CrcPayloads == SeqsUpTo(CrcBytes, CodecMaxLen)

InitCrc ==
    /\ connection = "dummy"
    /\ ThreadsIdle
    /\ OpsIdle
    /\ Sm10Idle
    /\ PortIdle
    /\ RestIdle
    /\ pin \in CrcPayloads
    /\ pout = <<>>
    /\ ppc = "in"

CalculateCRC ==
    /\ ppc = "in"
    /\ pout' = calculateCRC(pin)
    /\ ppc' = "out"
    /\ UNCHANGED pin
    /\ UNCHANGED threadVars
    /\ UNCHANGED opVars
    /\ UNCHANGED <<sm10Vars, portVars, restVars>>

NextCrc == CalculateCRC

SpecCrc == InitCrc /\ [][NextCrc]_vars

\* C39: calculateCRC, whose running value is never cut to 16 bits, returns
\* the (MSB, LSB) of the CRC-16 with polynomial 0x1021 and initial value 0
\* whose running value is taken modulo 2^16 after every shift
C39_UnmaskedCrcEqualsMasked ==
    ppc = "out" => pout = RefCrc(0, pin)

\* a payload whose running value has a bit set above the sixteenth
C39_Witness ==
    /\ ppc = "out"
    /\ LET crc == crcFold(Bits(0), pin)
       IN  \E k \in 17..Len(crc) : crc[k] = 1
    /\ pout = RefCrc(0, pin)

====
